---- MODULE Spec2Model ----
(***************************************************************************)
(* A model of the OCR service: the Redis queue worker (ocr_service/        *)
(* worker.py), the iterative OCR engine (modules/ocr_engine.py), the       *)
(* vision provider set (modules/advanced_recon.py), its request policy and *)
(* its HTTP clients (modules/ai_providers.py), the object store            *)
(* (services/storage.py), the S3 event handler (lambda_handler.py,         *)
(* services/worker.py), the processor (modules/processor.py), the cloud    *)
(* OCR service (services/textract.py), the pattern store's local file and  *)
(* its retrieval of the best pattern (modules/learning_engine.py), the     *)
(* confidence scorer (modules/confidence.py) and the submit endpoint       *)
(* (main.py).  Each component has its own specification; the variables of  *)
(* the other components stay at their initial values.                      *)
(***************************************************************************)
EXTENDS Integers, Sequences, FiniteSets, TLC

VARIABLES
    kv,          \* Redis KV: job id -> stored value of job:<id>
    queue,       \* Redis list ocr_tasks: sequence of job ids
    deliveries,  \* job id -> number of times the id was pushed to the queue
    crashed,     \* whether a worker instance has crashed in the middle of a job
    kvFaulty,    \* whether Redis commands may raise (connection loss) in this run
    lastEnd,     \* job id -> how the most recent process_job run on it ended
    wk,          \* worker instance -> its local state (position, locals, run history)
    eng,         \* one IterativeOCREngine.process_image call: config, locals, response
    rc,          \* one AdvancedPixelReconstructor.reconstruct_with_ai call
    rq,          \* one BaseVisionProvider._request_with_retry call
    st,          \* one StorageService call: configuration, attempts, result
    lh,          \* one lambda_handler.handler invocation over a batch of S3 records
    pr,          \* one OCRProcessor.process_bytes call
    tx,          \* one TextractService call: attempts or polls, return value, exception
    ps,          \* the vision provider set: each provider's client, clients used and closed
    ls,          \* the pattern store's local file and the calls working on it
    sc,          \* a text, the marker appended to it, and the scores before and after
    sb,          \* job id -> the submit_job request that creates it: position, url
    kn           \* one get_pattern_knowledge call

workerVars == <<kv, queue, deliveries, crashed, kvFaulty, lastEnd, wk>>
engineVars == <<eng>>
reconVars == <<rc>>
requestVars == <<rq>>
storageVars == <<st>>
lambdaVars == <<lh>>
processorVars == <<pr>>
textractVars == <<tx>>
providerSetVars == <<ps>>
patternStoreVars == <<ls>>
scorerVars == <<sc>>
submitVars == <<sb>>
knowledgeVars == <<kn>>

nonWorkerVars == <<engineVars, reconVars, requestVars, storageVars, lambdaVars, processorVars, textractVars, providerSetVars, patternStoreVars, scorerVars, submitVars, knowledgeVars>>
nonEngineVars == <<workerVars, reconVars, requestVars, storageVars, lambdaVars, processorVars, textractVars, providerSetVars, patternStoreVars, scorerVars, submitVars, knowledgeVars>>
nonReconVars == <<workerVars, engineVars, requestVars, storageVars, lambdaVars, processorVars, textractVars, providerSetVars, patternStoreVars, scorerVars, submitVars, knowledgeVars>>
nonRequestVars == <<workerVars, engineVars, reconVars, storageVars, lambdaVars, processorVars, textractVars, providerSetVars, patternStoreVars, scorerVars, submitVars, knowledgeVars>>
nonStorageVars == <<workerVars, engineVars, reconVars, requestVars, lambdaVars, processorVars, textractVars, providerSetVars, patternStoreVars, scorerVars, submitVars, knowledgeVars>>
nonLambdaVars == <<workerVars, engineVars, reconVars, requestVars, storageVars, processorVars, textractVars, providerSetVars, patternStoreVars, scorerVars, submitVars, knowledgeVars>>
nonProcessorVars == <<workerVars, engineVars, reconVars, requestVars, storageVars, lambdaVars, textractVars, providerSetVars, patternStoreVars, scorerVars, submitVars, knowledgeVars>>
nonTextractVars == <<workerVars, engineVars, reconVars, requestVars, storageVars, lambdaVars, processorVars, providerSetVars, patternStoreVars, scorerVars, submitVars, knowledgeVars>>
nonProviderSetVars == <<workerVars, engineVars, reconVars, requestVars, storageVars, lambdaVars, processorVars, textractVars, patternStoreVars, scorerVars, submitVars, knowledgeVars>>
nonPatternStoreVars == <<workerVars, engineVars, reconVars, requestVars, storageVars, lambdaVars, processorVars, textractVars, providerSetVars, scorerVars, submitVars, knowledgeVars>>
nonScorerVars == <<workerVars, engineVars, reconVars, requestVars, storageVars, lambdaVars, processorVars, textractVars, providerSetVars, patternStoreVars, submitVars, knowledgeVars>>
nonSubmitVars == <<workerVars, engineVars, reconVars, requestVars, storageVars, lambdaVars, processorVars, textractVars, providerSetVars, patternStoreVars, scorerVars, knowledgeVars>>
nonKnowledgeVars == <<workerVars, engineVars, reconVars, requestVars, storageVars, lambdaVars, processorVars, textractVars, providerSetVars, patternStoreVars, scorerVars, submitVars>>

vars == <<workerVars, engineVars, reconVars, requestVars, storageVars, lambdaVars, processorVars, textractVars, providerSetVars, patternStoreVars, scorerVars, submitVars, knowledgeVars>>

(***************************************************************************)
(* Bounds and fixed sets                                                   *)
(***************************************************************************)
Workers == {"w1", "w2"}
Jobs == {"X"}
MaxDeliveries == 2
B64Chars == {"A", "=", "!"}

\* The image_bytes strings jobs carry: every outcome of the decoder, with and
\* without padding and skipped characters.
B64Samples ==
    {<<>>, <<"A">>, <<"A", "A">>, <<"A", "A", "=", "=">>, <<"A", "A", "A", "=">>,
     <<"A", "A", "A", "A">>, <<"=", "=", "=", "=">>, <<"!", "!", "!", "!">>,
     <<"A", "A", "=", "A">>, <<"A", "A", "A", "A", "=">>, <<"A", "!", "A", "A", "A">>}

SeqsUpTo(S, n) == UNION {[1..k -> S] : k \in 0..n}

(***************************************************************************)
(* base64.b64decode(s) as worker.py:111 calls it (non-strict mode):        *)
(* characters outside the alphabet are skipped, a pad sequence that        *)
(* completes a quad ends the scan, an incomplete quad raises.              *)
(* "A" stands for an alphabet character, "=" for the pad, "!" for a        *)
(* character outside the alphabet.  The decoded value is kept by length.   *)
(***************************************************************************)
B64Raise == [ok |-> FALSE, len |-> 0]
B64Bytes(n) == [ok |-> TRUE, len |-> n]

RECURSIVE B64Scan(_, _, _, _, _)
B64Scan(s, i, quad, pads, n) ==
    IF i > Len(s)
    THEN IF quad # 0 THEN B64Raise ELSE B64Bytes(n)
    ELSE IF s[i] = "="
         THEN IF quad >= 2 /\ quad + pads + 1 >= 4
              THEN B64Bytes(n)
              ELSE B64Scan(s, i + 1, quad, IF quad >= 2 THEN pads + 1 ELSE pads, n)
         ELSE IF s[i] = "!"
              THEN B64Scan(s, i + 1, quad, pads, n)
              ELSE B64Scan(s, i + 1, (quad + 1) % 4, 0, IF quad = 0 THEN n ELSE n + 1)

B64Decode(s) == B64Scan(s, 1, 0, 0, 0)

(***************************************************************************)
(* Job records                                                             *)
(***************************************************************************)
NoError == "<no error key>"
TypeErrorAwait == "object dict can't be used in 'await' expression"
TypeErrorLen == "object of type 'int' has no len()"
EngineError == "engine raised"
JSONDecodeError == "Expecting value: line 1 column 1 (char 0)"
ConnectionError == "Connection refused"

NoResult == [present |-> FALSE, error |-> "", value |-> ""]
ErrorResult(e) == [present |-> TRUE, error |-> e, value |-> ""]
EngineResult(v) == [present |-> TRUE, error |-> "", value |-> v]

\* What the engine can hand back when called on non-empty bytes.
EngineValues == {"text:out"}

\* image_bytes key of a payload: absent, a JSON string, JSON null, or a JSON number.
ImageBytesValues ==
    {[kind |-> "absent", s |-> <<>>], [kind |-> "null", s |-> <<>>],
     [kind |-> "number", s |-> <<>>]}
    \cup {[kind |-> "str", s |-> s] : s \in B64Samples}

\* image_path key of a payload, with what open()/read() does on that path.
ImagePathValues ==
    {[kind |-> "absent", file |-> "none"]}
    \cup {[kind |-> "path", file |-> f] : f \in {"nonempty", "empty", "unreadable"}}

\* image_path is read only when the image_bytes key is absent; a payload that
\* carries both keys has one of the shortest image_bytes strings and a readable file.
Payloads ==
    {pl \in [image_bytes : ImageBytesValues, image_path : ImagePathValues] :
        pl.image_bytes.kind # "absent" =>
            \/ pl.image_path.kind = "absent"
            \/ Len(pl.image_bytes.s) <= 1 /\ pl.image_path.file = "nonempty"}

Absent == [kind |-> "absent", status |-> "", updated_at |-> FALSE,
           result |-> NoResult, completed_at |-> FALSE,
           error |-> NoError, failed_at |-> FALSE,
           image_bytes |-> [kind |-> "absent", s |-> <<>>],
           image_path |-> [kind |-> "absent", file |-> "none"],
           url |-> "<no url key>"]

\* A stored value that json.loads cannot turn into a dict.
Garbage == [Absent EXCEPT !.kind = "garbage"]

\* The record a producer stores: the payload with status QUEUED.
Queued(p) == [Absent EXCEPT !.kind = "json", !.status = "QUEUED",
                            !.image_bytes = p.image_bytes,
                            !.image_path = p.image_path]

Terminal == {"COMPLETED", "FAILED"}

(***************************************************************************)
(* worker.py: the dict updates process_job and _handle_job_failure make    *)
(***************************************************************************)
MarkProcessing(d) == [d EXCEPT !.status = "PROCESSING", !.updated_at = TRUE]

MarkCompleted(d, r) ==
    [d EXCEPT !.status = "COMPLETED", !.result = r, !.completed_at = TRUE]

\* Mutant: the failure handler records the error but leaves the status as read.
MarkFailed_StatusKept(d, msg) == [d EXCEPT !.error = msg, !.failed_at = TRUE]

MarkFailed(d, msg) ==
    [d EXCEPT !.status = "FAILED", !.error = msg, !.failed_at = TRUE]

(***************************************************************************)
(* worker.py _execute_ocr, the input resolution (lines 102-134): either an *)
(* early result, or the bytes to hand to the engine.                       *)
(***************************************************************************)
Early(r) == [tag |-> "return", result |-> r, bytes |-> "none"]
ToEngine(b) == [tag |-> "engine", result |-> NoResult, bytes |-> b]

MissingInput == Early(ErrorResult("missing_input"))

\* Mutant: the `if not image_bytes` test (worker.py:128) is missing, so empty or
\* null bytes go to the engine.
ResolveInput_NoEmptyTest(d) ==
    IF d.image_bytes.kind # "absent"
    THEN IF d.image_bytes.kind = "str"
         THEN IF ~B64Decode(d.image_bytes.s).ok
              THEN Early(ErrorResult("invalid_image_encoding"))
              ELSE ToEngine("bytes")
         ELSE ToEngine(IF d.image_bytes.kind = "null" THEN "bytes" ELSE "number")
    ELSE IF d.image_path.kind # "absent"
         THEN IF d.image_path.file = "unreadable"
              THEN Early(ErrorResult("file_not_found"))
              ELSE ToEngine("bytes")
         ELSE ToEngine("bytes")

ResolveInput(d) ==
    IF d.image_bytes.kind # "absent"
    THEN IF d.image_bytes.kind = "str"
         THEN LET dec == B64Decode(d.image_bytes.s) IN
              IF ~dec.ok THEN Early(ErrorResult("invalid_image_encoding"))
              ELSE IF dec.len = 0 THEN MissingInput
              ELSE ToEngine("bytes")
         ELSE IF d.image_bytes.kind = "null" THEN MissingInput
              ELSE ToEngine("number")
    ELSE IF d.image_path.kind # "absent"
         THEN IF d.image_path.file = "unreadable"
              THEN Early(ErrorResult("file_not_found"))
              ELSE IF d.image_path.file = "empty" THEN MissingInput
              ELSE ToEngine("bytes")
         ELSE MissingInput

(***************************************************************************)
(* ocr_engine.py:194 declares process_image with a plain def, so the call  *)
(* returns the response dict itself; worker.py:137 awaits that value.      *)
(***************************************************************************)
ProcessImageIsCoroutineFunction == FALSE

\* `await v`: the value of an awaitable, TypeError for any other object.
Await(v) ==
    IF ProcessImageIsCoroutineFunction
    THEN [raised |-> FALSE, value |-> v, msg |-> ""]
    ELSE [raised |-> TRUE, value |-> NoResult, msg |-> TypeErrorAwait]

(***************************************************************************)
(* Worker state                                                            *)
(***************************************************************************)
IdleWorker ==
    [pc |-> "idle", job |-> "none", raw |-> Absent, job_data |-> Absent,
     result |-> NoResult, exc |-> NoError, fraw |-> Absent,
     found |-> FALSE, seen |-> "", resolved |-> "none",
     engine_calls |-> 0, engine_out |-> NoResult, written |-> Absent]

\* A Redis command returns, or raises when the connection is lost.
KvOutcomes == IF kvFaulty THEN BOOLEAN ELSE {TRUE}

InRun == {"get", "mark", "ocr", "complete", "fail_get", "fail_set"}

\* Positions at which the loop of start() is at its blpop: before the first job,
\* after process_job returned, after an exception escaped process_job.
AtBlpop == {"idle", "returned", "raised"}

\* The locals of process_job are gone once it has ended.
Ended(s, how) ==
    [s EXCEPT !.pc = how, !.raw = Absent, !.job_data = Absent, !.fraw = Absent]

(***************************************************************************)
(* Iterative OCR engine: data                                              *)
(***************************************************************************)
MaxIterations == 3
MaxRegions == 2
MaxImageSizeMb == 10
ConfidenceThreshold == 50

\* The size limits an engine may be configured with, in MB.
ImageSizeLimits == {0, 1, MaxImageSizeMb}

\* image_toolkit.py:48  max_size_mb * 1024 * 1024
MaxImageBytes(max_size_mb) == max_size_mb * 1024 * 1024

\* Inputs of process_image: the length of the bytes and whether cv2 decodes them.
ImageInputs(max_size_mb) ==
    [len : {0, 1, MaxImageBytes(max_size_mb), MaxImageBytes(max_size_mb) + 1},
     decodable : BOOLEAN]

\* An OCR text, kept by the features ConfidenceScorer.calculate reads: its
\* length, its alphanumeric characters, its word-like matches and the markers
\* found in it.  id tells the texts apart.
EmptyText == [id |-> "", len |-> 0, alnum |-> 0, words |-> 0, markers |-> 0]

Texts ==
    {EmptyText,
     [id |-> "7", len |-> 1, alnum |-> 1, words |-> 0, markers |-> 0],
     [id |-> "???", len |-> 3, alnum |-> 0, words |-> 0, markers |-> 0],
     [id |-> "low", len |-> 40, alnum |-> 30, words |-> 5, markers |-> 0],
     [id |-> "low2", len |-> 50, alnum |-> 25, words |-> 5, markers |-> 0],
     [id |-> "high", len |-> 100, alnum |-> 80, words |-> 10, markers |-> 2]}

Min(a, b) == IF a < b THEN a ELSE b

\* round(x, 2) of x = num / (100 * den), in hundredths: ties go to the even digit.
RoundHalfEven(num, den) ==
    LET q == num \div den
        r == num % den
    IN  IF 2 * r < den THEN q
        ELSE IF 2 * r > den THEN q + 1
        ELSE IF q % 2 = 0 THEN q ELSE q + 1

\* confidence.py:35-63  ConfidenceScorer.calculate, in hundredths:
\* round((0.4*density + 0.4*word_factor + marker_score) * length_factor, 2)
Calculate(t) ==
    IF t.len = 0 THEN 0
    ELSE LET word10 == IF t.words > 0 THEN Min(10, t.words) ELSE 0
             marker100 == Min(20, 5 * t.markers)
             length100 == Min(100, t.len)
         IN  RoundHalfEven((40 * t.alnum + (4 * word10 + marker100) * t.len) * length100,
                           100 * t.len)

\* Mutant: an input of exactly the limit is refused.
ValidateImage_LimitExcluded(input, max_size_mb) ==
    IF input.len = 0 THEN "Empty image content"
    ELSE IF input.len >= MaxImageBytes(max_size_mb) THEN "Image size exceeds limit"
    ELSE ""

\* image_toolkit.py:41-51  ImageToolkit.validate_image
ValidateImage(input, max_size_mb) ==
    IF input.len = 0 THEN "Empty image content"
    ELSE IF input.len > MaxImageBytes(max_size_mb) THEN "Image size exceeds limit"
    ELSE ""

\* image_toolkit.py:63-71: enhance_iteration is a coroutine function and
\* ocr_engine.py:268 calls it without await, so what the call returns, and what
\* becomes the next pass's current_img, is the coroutine object.
EnhanceIteration(img) == "coroutine"

\* enhance.py:25-30  cv2.filter2D accepts arrays only
SharpenRaises(img) == img # "image"

\* ocr_engine.py:184-192
ShouldUseRegionOcr(iteration, confidence, region_count) ==
    /\ iteration = 1
    /\ confidence < ConfidenceThreshold
    /\ region_count > 1

IterationFailed(img, attempted) ==
    [failed |-> TRUE, text |-> EmptyText, confidence |-> 0, method |-> "failed",
     next_img |-> img, region_attempted |-> attempted]

\* ocr_engine.py:239-273  _run_single_iteration.  fault names the step an
\* exception comes from in this pass besides the ones the image itself causes;
\* full and regional are what Tesseract reads from the page and from the regions.
RunSingleIteration(current_img, iteration, best_confidence, region_count, fault, full, regional) ==
    IF SharpenRaises(current_img) \/ fault = "preprocess"
    THEN IterationFailed(current_img, FALSE)
    ELSE LET is_region_pass ==
                 ShouldUseRegionOcr(iteration, best_confidence, region_count)
             text == IF is_region_pass THEN regional ELSE full
         IN  IF is_region_pass /\ fault = "region"
             THEN IterationFailed(current_img, TRUE)
             ELSE [failed |-> FALSE, text |-> text, confidence |-> Calculate(text),
                   method |-> IF is_region_pass THEN "region-based" ELSE "full-page",
                   next_img |-> EnhanceIteration(current_img),
                   region_attempted |-> is_region_pass]

\* ocr_engine.py:220-230  the history entry of pass i (0-based)
HistoryEntry_ZeroBased(i, r) ==
    IF r.failed
    THEN [iteration |-> i, error |-> "failed", text_length |-> 0, confidence |-> 0,
          method |-> "", preview_text |-> [of |-> "", cut |-> FALSE]]
    ELSE [iteration |-> i, error |-> "", text_length |-> r.text.len,
          confidence |-> r.confidence, method |-> r.method,
          preview_text |-> [of |-> r.text.id, cut |-> r.text.len > 50]]

HistoryEntry(i, r) ==
    IF r.failed
    THEN [iteration |-> i + 1, error |-> "failed", text_length |-> 0, confidence |-> 0,
          method |-> "", preview_text |-> [of |-> "", cut |-> FALSE]]
    ELSE [iteration |-> i + 1, error |-> "", text_length |-> r.text.len,
          confidence |-> r.confidence, method |-> r.method,
          preview_text |-> [of |-> r.text.id, cut |-> r.text.len > 50]]

\* Mutant: the text is kept but the tuple's confidence is not.
UpdateBest_TextOnly(best, r) ==
    IF ~r.failed /\ r.text.len > 0 /\ r.confidence > best.confidence
    THEN [text |-> r.text, confidence |-> best.confidence]
    ELSE best

\* ocr_engine.py:232-233  if text and confidence > best_confidence
UpdateBest(best, r) ==
    IF ~r.failed /\ r.text.len > 0 /\ r.confidence > best.confidence
    THEN [text |-> r.text, confidence |-> r.confidence]
    ELSE best

NoResponse ==
    [error |-> "", text |-> EmptyText, confidence |-> 0, iterations |-> <<>>,
     success |-> FALSE, reconstruction |-> FALSE, built |-> FALSE]

ErrorResponse(e) == [NoResponse EXCEPT !.error = e, !.built = TRUE]

\* ocr_engine.py:275-291  _build_process_response
BuildProcessResponse(best_text, best_confidence, iteration_history, recon_info) ==
    [error |-> "", text |-> best_text, confidence |-> best_confidence,
     iterations |-> iteration_history, success |-> best_text.len > 0,
     reconstruction |-> recon_info, built |-> TRUE]

EngineIdle(n) ==
    [pc |-> "idle", max_iterations |-> n, max_image_size_mb |-> MaxImageSizeMb,
     validation |-> "none", use_reconstruction |-> FALSE,
     input |-> [len |-> 0, decodable |-> FALSE], current_img |-> "none",
     recon_info |-> FALSE, layout_regions |-> 0, i |-> 0,
     best |-> [text |-> EmptyText, confidence |-> 0],
     iteration_history |-> <<>>, passes |-> <<>>, response |-> NoResponse]

(***************************************************************************)
(* Vision provider set: data                                               *)
(***************************************************************************)
ProviderNames == {"openai", "gemini", "huggingface"}

\* The names a caller may ask for: a registered kind or one nobody registered.
RequestedNames == ProviderNames \cup {"other"}

\* self.providers: a dict, iterated in insertion (registration) order.
Registrations ==
    {s \in SeqsUpTo(ProviderNames, Cardinality(ProviderNames)) :
        \A i, j \in 1..Len(s) : s[i] = s[j] => i = j}

NoProvider == "none"

\* advanced_recon.py:114-128  _get_primary_provider
GetPrimaryProvider(providers, requested) ==
    IF \E i \in 1..Len(providers) : providers[i] = requested THEN requested
    ELSE IF providers = <<>> THEN NoProvider
    ELSE providers[1]

\* Mutant: the loop does not skip the provider that already failed.
FallbackOrder_NoExclude(providers, exclude) == providers

\* advanced_recon.py:158-160  the providers _try_fallback goes through, in order
FallbackOrder(providers, exclude) ==
    SelectSeq(providers, LAMBDA name : name # exclude)

\* What a provider's reconstruct returns when it succeeds.
ProviderResult(name) == [error |-> "", model |-> name]

ReconError(e) == [error |-> e, model |-> ""]

NoReconResult == [error |-> "", model |-> ""]

\* Mutant: the error of the last provider is formatted and returned instead.
AllProvidersFailed_LastError == ReconError("Internal error")

\* advanced_recon.py:170  what _try_fallback returns after its loop
AllProvidersFailed == ReconError("All AI providers failed")

\* advanced_recon.py:144-150  _format_error: the kinds of exception told apart
ProviderExceptions == {"AIProviderError", "HTTPError", "Exception"}

FormatError(e) ==
    IF e = "AIProviderError" THEN ReconError("provider error")
    ELSE IF e = "HTTPError" THEN ReconError("Network error")
    ELSE ReconError("Internal error")

ReconIdle(providers) ==
    [pc |-> "idle", providers |-> providers, requested |-> "", fallback |-> FALSE,
     primary |-> NoProvider, order |-> <<>>, idx |-> 0, calls |-> <<>>,
     result |-> NoReconResult]

(***************************************************************************)
(* Vision providers' shared request policy: data                           *)
(***************************************************************************)
MaxRetries == 4

\* What one client.request gives: a transport error (httpx.HTTPError), a 429,
\* a success status or another error status.
RequestOutcomes == {"HTTPError", "429", "200", "500"}

\* Mutant: a 429 leaves the attempt counter alone.
AttemptAfterRateLimit_NotCounted(attempt) == attempt

\* ai_providers.py:118-123  a 429 sleeps 2**attempt and then counts the attempt
AttemptAfterRateLimit(attempt) == attempt + 1

\* ai_providers.py:114-116, 119-121  the backoff slept, in seconds
Backoff(attempt) == 2 ^ attempt

RequestIdle(n) ==
    [pc |-> "idle", max_retries |-> n, attempt |-> 0, requests |-> 0,
     transport_failures |-> 0, rate_limited |-> 0, sleeps |-> <<>>,
     error |-> "", returned |-> FALSE]

(***************************************************************************)
(* Object store: data                                                      *)
(***************************************************************************)
MaxAwsRetries == 3
DefaultMaxRetries == 3

\* The public operations of StorageService that end in put_object.
StorageEntries == {"put_object", "save_json", "upload_file", "upload_json"}

\* What one s3_client.put_object call gives: success, a botocore ClientError
\* for a transient condition (throttling, a 5xx of the service), a botocore
\* ClientError whose code is AccessDenied, or an exception of another class.
PutOutcomes == {"ok", "ClientError", "AccessDenied", "OtherError"}

\* The outcomes that are instances of botocore.exceptions.ClientError.
ClientErrors == {"ClientError", "AccessDenied"}

\* storage.py:46  getattr(settings, "aws_max_retries", None) or 3
EffectiveMaxRetries(aws_max_retries) ==
    IF aws_max_retries = 0 THEN DefaultMaxRetries ELSE aws_max_retries

\* Mutant: one attempt more than the budget before giving up.
StopAfterAttempt_OneMore(attempt_number, max_attempt_number) ==
    attempt_number > max_attempt_number

\* storage.py:186  tenacity stop_after_attempt(self.max_retries)
StopAfterAttempt(attempt_number, max_attempt_number) ==
    attempt_number >= max_attempt_number

\* storage.py:188  retry_if_exception_type(ClientError)
RetryIfClientError(outcome) == outcome \in ClientErrors

\* storage.py:144-150, 158-162  what the entry point makes of put_object's bool
EntryResult(entry, success) ==
    IF entry \in {"upload_file", "upload_json"}
    THEN IF success THEN "key" ELSE "None"
    ELSE IF success THEN "True" ELSE "False"

StorageIdle(aws_max_retries, bucket, client) ==
    [pc |-> "idle", aws_max_retries |-> aws_max_retries,
     max_retries |-> EffectiveMaxRetries(aws_max_retries),
     bucket_name |-> bucket, s3_client |-> bucket /\ client,
     entry |-> "", attempts |-> <<>>, put_result |-> "none", result |-> "none"]

(***************************************************************************)
(* Event handler and S3 record processing: data                            *)
(***************************************************************************)
MaxRecords == 2

\* Strings are sequences of characters; "%2F", "%20", ".pdf", ".PDF", ".jpg"
\* and ".json" stand for the runs of characters they name.
KeySamples ==
    {<<>>, <<"a">>, <<"+">>, <<"d", "/", "a">>, <<"a", "+", "b">>,
     <<"d", "%2F", "a", ".jpg">>, <<"a", "%20", "b">>, <<"a", "/">>,
     <<"a", ".pdf">>, <<"d", "/", "a", ".PDF">>}

OutputPrefixes ==
    {<<"o", "/">>, <<"o">>, <<"o", "/", "/">>, <<>>, <<"o", "/", "p", "/">>}

BucketNames == {"", "bucket"}

\* The context's aws_request_id, "" when the context has none.
ContextIds == {"", "RID-1"}

\* What the Textract client gives for a record once its retries are used up.
TextractOutcomes == {"ok", "ClientError", "OtherError", "NoJobId"}

\* urllib.parse.unquote_plus on one character
UnquoteChar(c) ==
    IF c = "+" THEN " "
    ELSE IF c = "%20" THEN " "
    ELSE IF c = "%2F" THEN "/"
    ELSE c

\* services/worker.py:32  urllib.parse.unquote_plus
UnquotePlus(s) == [i \in 1..Len(s) |-> UnquoteChar(s[i])]

RECURSIVE RStripSlash(_)
\* services/worker.py:44  output_prefix.rstrip('/')
RStripSlash(s) ==
    IF s # <<>> /\ s[Len(s)] = "/" THEN RStripSlash(SubSeq(s, 1, Len(s) - 1)) ELSE s

RECURSIVE Basename(_)
\* services/worker.py:44  os.path.basename: what follows the last "/"
Basename(s) ==
    IF s = <<>> \/ s[Len(s)] = "/" THEN <<>>
    ELSE Append(Basename(SubSeq(s, 1, Len(s) - 1)), s[Len(s)])

\* Mutant: the base name is taken before the key is unescaped.
OutKey_BasenameFirst(output_prefix, raw_key) ==
    RStripSlash(output_prefix) \o <<"/">> \o UnquotePlus(Basename(raw_key)) \o <<".json">>

\* services/worker.py:32, 43-45  out_key
OutKey(output_prefix, raw_key) ==
    RStripSlash(output_prefix) \o <<"/">> \o Basename(UnquotePlus(raw_key)) \o <<".json">>

\* Mutant: only the lower-case suffix counts as a PDF.
IsPdf_CaseSensitive(key) == key # <<>> /\ key[Len(key)] = ".pdf"

\* services/worker.py:48  key.lower().endswith(".pdf")
IsPdf(key) == key # <<>> /\ key[Len(key)] \in {".pdf", ".PDF"}

\* textract.py:47-103  what the worker sees of start_detection and of
\* analyze_document: a ClientError never leaves TextractService as one.
TextractCall(is_pdf, outcome) ==
    IF is_pdf
    THEN IF outcome = "ok" THEN [exc |-> "", value |-> "job-1"]
         ELSE [exc |-> "", value |-> "None"]
    ELSE IF outcome \in {"ok", "NoJobId"} THEN [exc |-> "", value |-> "analysis"]
         ELSE [exc |-> "RuntimeError", value |-> ""]

\* services/worker.py:70-89  _handle_async_pdf / _handle_sync_image
HandleDocument(is_pdf, outcome, request_id) ==
    LET t == TextractCall(is_pdf, outcome)
        call == IF is_pdf THEN "start_detection" ELSE "analyze_document"
    IN  IF t.exc # ""
        THEN [exc |-> t.exc, output |-> "none", jobId |-> "", requestId |-> "",
              call |-> call]
        ELSE IF is_pdf /\ t.value = "None"
             THEN [exc |-> "RuntimeError", output |-> "none", jobId |-> "",
                   requestId |-> "", call |-> call]
             ELSE [exc |-> "", output |-> IF is_pdf THEN "STARTED" ELSE "analysis",
                   jobId |-> IF is_pdf THEN t.value ELSE "",
                   requestId |-> request_id, call |-> call]

\* services/worker.py:91-132  _handle_aws_error / _handle_generic_error err_obj
ErrorDocument(exc, provider_rid, request_id, key) ==
    [kind |-> "error",
     error |-> IF exc = "ClientError" THEN "aws_service_failure"
               ELSE "internal_pipeline_failure",
     requestId |-> IF exc = "ClientError" THEN provider_rid ELSE request_id,
     input |-> key]

\* services/worker.py:77-82, 87-89  the document a handled record persists:
\* the job reference with its input, or the analysis with the request id
ResultDocument(h, bucket, key) ==
    [kind |-> h.output, error |-> "", jobId |-> h.jobId, requestId |-> h.requestId,
     input |-> IF h.output = "STARTED" THEN key ELSE <<>>,
     input_bucket |-> IF h.output = "STARTED" THEN bucket ELSE ""]

\* Mutant: only a missing bucket makes a record skipped.
MissingReference_BucketOnly(bucket, key) == bucket = ""

\* services/worker.py:34  not bucket or not key
MissingReference(bucket, key) == bucket = "" \/ key = <<>>

\* services/worker.py:24-68  process_s3_record: whether it raised, and the
\* save_json calls it made, in order.
\* worker.py:54-59, 111, 133  what a save_json call leaves at out_key: its
\* false return is logged and nothing else
SaveJson(saved) == IF saved THEN "saved" ELSE "lost"

ProcessS3Record(bucket, raw_key, request_id, output_prefix, outcome, saved) ==
    LET key == UnquotePlus(raw_key)
        out_key == OutKey(output_prefix, raw_key)
        h == HandleDocument(IsPdf(key), outcome, request_id)
    IN  IF MissingReference(bucket, key)
        THEN [skipped |-> TRUE, raised |-> "", calls |-> {}, writes |-> <<>>,
              persisted |-> "skipped"]
        ELSE IF h.exc = ""
             THEN [skipped |-> FALSE, raised |-> "", calls |-> {h.call},
                   writes |-> <<[key |-> out_key,
                                 doc |-> ResultDocument(h, bucket, key)]>>,
                   persisted |-> SaveJson(saved)]
             ELSE [skipped |-> FALSE, raised |-> h.exc, calls |-> {h.call},
                   writes |-> <<[key |-> out_key,
                                 doc |-> ErrorDocument(h.exc, "AWS-RID", request_id, key)]>>,
                   persisted |-> SaveJson(saved)]

\* lambda_handler.py:20  getattr(context, "aws_request_id", "local-test")
RequestIdOf(context_id) == IF context_id = "" THEN "local-test" ELSE context_id

NoLambdaResponse == [status |-> "", failed |-> 0]

\* Mutant: a failure is reported, but not how many there were.
HandlerResponse_FlagOnly(failures) ==
    IF failures # 0 THEN [status |-> "partial_failure", failed |-> 1]
    ELSE [status |-> "ok", failed |-> 0]

\* lambda_handler.py:31-35  the handler's return value
HandlerResponse(failures) ==
    IF failures # 0 THEN [status |-> "partial_failure", failed |-> failures]
    ELSE [status |-> "ok", failed |-> 0]

LambdaIdle(output_prefix) ==
    [pc |-> "idle", output_prefix |-> output_prefix, request_id |-> "",
     records |-> 0, i |-> 0, failures |-> 0, raised |-> <<>>, persisted |-> <<>>,
     last |-> [bucket |-> "", raw_key |-> <<>>, outcome |-> "",
               skipped |-> FALSE, raised |-> "", calls |-> {}, writes |-> <<>>],
     response |-> NoLambdaResponse]

(***************************************************************************)
(* Processor: data                                                         *)
(***************************************************************************)
\* Python's None, told apart from the string str(None) gives.
NoneValue == "null"

\* processor.py:155  str(upload_results[0])
Str(v) == IF v = NoneValue THEN "None" ELSE v

CallerRequestIds == {"N/A", "RID-1"}

\* What StorageService.upload_file and upload_json return.
UploadResults == {"key", NoneValue}

NoEngineResult ==
    [returned |-> FALSE, error |-> "", method |-> "", reconstruction_meta |-> FALSE]

\* ocr_engine.py:194-237  what process_image returns and which of its steps ran
ProcessImageCall(input, use_reconstruction, recon_meta) ==
    IF ValidateImage(input, MaxImageSizeMb) # ""
    THEN [result |-> [returned |-> TRUE, error |-> ValidateImage(input, MaxImageSizeMb),
                      method |-> "", reconstruction_meta |-> FALSE],
          ops |-> {"validate"}]
    ELSE IF ~input.decodable
         THEN [result |-> [returned |-> TRUE,
                           error |-> "Corrupted or unsupported image format",
                           method |-> "", reconstruction_meta |-> FALSE],
               ops |-> {"validate", "decode"}]
         ELSE [result |-> [returned |-> TRUE, error |-> "", method |-> "iterative",
                           reconstruction_meta |-> use_reconstruction /\ recon_meta],
               ops |-> {"validate", "decode", "layout", "ocr"}
                          \cup (IF use_reconstruction THEN {"reconstruct"} ELSE {})]

\* ocr_engine.py:346-352  what process_image_advanced returns after the AI answered
AdvancedResult ==
    [returned |-> TRUE, error |-> "", method |-> "advanced_ai_reconstruction",
     reconstruction_meta |-> FALSE]

NoHttpResponse ==
    [http |-> 0, detail |-> "", result |-> NoEngineResult, enriched |-> FALSE,
     s3_key |-> "", request_id |-> ""]

\* processor.py:78-81, 104-109  HTTPException
HttpError(status_code, detail) == [NoHttpResponse EXCEPT !.http = status_code, !.detail = detail]

\* processor.py:92-100  the result enriched with the traceability metadata
Enriched(result, s3_key, request_id) ==
    [http |-> 200, detail |-> "", result |-> result, enriched |-> TRUE,
     s3_key |-> s3_key, request_id |-> request_id]

\* ocr_engine.py:330-332  the fallback has not been called
NoFallback == [called |-> FALSE, input |-> [len |-> 0, decodable |-> FALSE],
               use_reconstruction |-> FALSE]

\* ocr_engine.py:331  use_reconstruction=True in the iterative fallback
FallbackUseReconstruction_Off == FALSE

FallbackUseReconstruction == TRUE

\* ocr_engine.py:339  asyncio.create_task(...): the learning write is
\* scheduled, and process_image_advanced does not await it
LearningIsAwaited_Yes == TRUE

LearningIsAwaited == FALSE

\* learning_engine.py:77-91  the cloud upsert: no client, done, or an exception
CloudOutcomes == {"inactive", "ok", "failed"}

\* learning_engine.py:122-131  the local write: done, or an exception
LocalOutcomes == {"ok", "failed"}

\* ocr_engine.py:339  no learning task exists
NoLearning == [state |-> "none", cloud |-> "", local |-> "", task_exception |-> FALSE]

\* learning_engine.py:61-93  learn_from_result run to its end: the upsert's
\* exception is caught and logged, the local write's ends the task
LearnFromResultOutcome(cloud, local) ==
    [state |-> "finished", cloud |-> cloud, local |-> local,
     task_exception |-> local = "failed"]

ProcessorIdle ==
    [pc |-> "idle", input |-> [len |-> 0, decodable |-> FALSE], advanced |-> FALSE,
     use_recon |-> FALSE, request_id |-> "", did |-> {}, result |-> NoEngineResult,
     uploads |-> <<>>, response |-> NoHttpResponse,
     ai_result |-> "none", fallback |-> NoFallback, learning |-> NoLearning]

(***************************************************************************)
(* Cloud OCR service: data                                                 *)
(***************************************************************************)
MaxPollAttempts == 30

TextractOperations == {"analyze_document", "start_detection", "get_job_results"}

\* What one call of the Textract client gives to analyze_document and to
\* start_detection; "NoJobId" is a response without a JobId.
TextractCallOutcomes == {"ok", "NoJobId", "ClientError", "OtherError"}

\* What one get_document_text_detection call gives to get_job_results.
PollOutcomes == {"SUCCEEDED", "FAILED", "IN_PROGRESS", "ClientError"}

NoTextractValue == "none"

\* textract.py:61, 88-96  what the decorated function returns for a response
TextractValue(operation, outcome) ==
    IF operation = "analyze_document" THEN "payload"
    ELSE IF outcome = "NoJobId" THEN NoneValue ELSE "job-1"

\* textract.py:64-70, 97-103  what the operation does with the exception that
\* the retry decorator lets through
TextractFailure(operation) ==
    IF operation = "analyze_document"
    THEN [returned |-> FALSE, value |-> NoTextractValue,
          raised |-> "RuntimeError: Max retry threshold reached"]
    ELSE [returned |-> TRUE, value |-> NoneValue, raised |-> ""]

TextractIdle(aws_max_retries) ==
    [pc |-> "idle", aws_max_retries |-> aws_max_retries, max_retries |-> aws_max_retries,
     operation |-> "", attempts |-> <<>>, polls |-> 0,
     returned |-> FALSE, value |-> NoTextractValue, raised |-> ""]

(***************************************************************************)
(* Vision provider set and its HTTP clients: data                          *)
(***************************************************************************)
\* advanced_recon.py:66-78  the order in which the default providers are made
DefaultOrder == <<"openai", "gemini", "huggingface">>

NoClient == "none"

InjectedClient == "injected"

\* ai_providers.py:79  the httpx.AsyncClient() a provider creates for itself
CreatedClient(name) == "created by " \o name

Clients == {InjectedClient} \cup {CreatedClient(name) : name \in ProviderNames}

\* ai_providers.py:77-81  _get_client: [client, own_client] after the call
GetClient(client, own_client, name) ==
    IF client = NoClient
    THEN [client |-> CreatedClient(name), own_client |-> TRUE]
    ELSE [client |-> client, own_client |-> own_client]

\* ai_providers.py:73  the test that guards aclose() in BaseVisionProvider.close
ClosesClient(client, own_client) == own_client /\ client # NoClient

\* advanced_recon.py:43-56, ai_providers.py:66-69  the set after construction:
\* every configured provider holds the set's client (None if none was injected)
ProviderSetIdle(configured, injected) ==
    [pc |-> "open", configured |-> configured, injected |-> injected,
     client |-> [name \in ProviderNames |->
                   IF name \in configured /\ injected THEN InjectedClient ELSE NoClient],
     own_client |-> [name \in ProviderNames |-> FALSE],
     used |-> {}, aclose |-> [c \in Clients |-> 0], i |-> 1]

(***************************************************************************)
(* Pattern store's local file: data                                        *)
(***************************************************************************)
MaxPatterns == 500

MaxCalls == 3

\* The threads asyncio.to_thread runs the file work of concurrent calls in.
Tasks == {1, 2}

\* The entries a local file holds when the store is constructed: none, or
\* what earlier record calls left, up to the cap.
StoredCounts == {0, MaxPatterns - 1, MaxPatterns}

\* Patterns are numbered in the order they are made: the stored ones first.
StoredPatterns(count) == [k \in 1..count |-> k]

\* learning_engine.py:126-127  patterns[-500:] when there are more than 500
KeepRecent(patterns) ==
    IF Len(patterns) > MaxPatterns
    THEN SubSeq(patterns, Len(patterns) - MaxPatterns + 1, Len(patterns))
    ELSE patterns

\* learning_engine.py:144-151  _load_patterns: a file that cannot be parsed
\* (opened for writing and not yet written) reads as no patterns
LoadPatterns(file) == IF file.complete THEN file.content ELSE <<>>

IdleTask == [pc |-> "idle", op |-> "", data |-> 0, patterns |-> <<>>]

PatternStoreIdle(count) ==
    [stored |-> count,
     file |-> [content |-> StoredPatterns(count), complete |-> TRUE],
     task |-> [t \in Tasks |-> IdleTask],
     calls |-> 0, written |-> <<>>, half_read |-> FALSE]

(***************************************************************************)
(* Confidence scorer on texts with appended markers: data                  *)
(***************************************************************************)
MaxShortWords == 10

MaxPunct == 2

MaxAppends == 1

\* confidence.py:21-33  the default marker set
Markers ==
    {"date", "fecha", "total", "invoice", "factura", "name", "nombre", "id", "dni",
     "tax", "iva"}

\* len(m) of a marker
MarkerLen(m) ==
    CASE m \in {"id"} -> 2
      [] m \in {"dni", "tax", "iva"} -> 3
      [] m \in {"date", "name"} -> 4
      [] m \in {"fecha", "total"} -> 5
      [] m \in {"nombre"} -> 6
      [] OTHER -> 7

\* The lengths of the one long run of letters a sample text may hold.
LongRuns == {0, 1, 68, 69, 70}

\* The markers a sample text ends with before anything is appended.
MarkerTails == {<<>>, <<"id">>, <<"date", "total", "name", "tax">>}

\* A sample text is a list of tokens joined by single spaces: short_words
\* two-letter words, a run of punct punctuation characters, a run of long
\* letters, then the markers of the tail; none of the words holds a marker.
SampleTexts ==
    [short_words : 0..MaxShortWords, punct : 0..MaxPunct, long : LongRuns,
     tail : MarkerTails]

RECURSIVE SumMarkerLen(_)
SumMarkerLen(tail) ==
    IF tail = <<>> THEN 0 ELSE MarkerLen(Head(tail)) + SumMarkerLen(Tail(tail))

TokenCount(text) ==
    text.short_words + (IF text.punct > 0 THEN 1 ELSE 0)
        + (IF text.long > 0 THEN 1 ELSE 0) + Len(text.tail)

\* confidence.py:43-51  what calculate counts in a sample text: its length,
\* its alphanumeric characters, the matches of \b[a-zA-Z...]{2,}\b and the
\* markers found in it
Features(text) ==
    [id |-> "sample",
     len |-> 2 * text.short_words + text.punct + text.long + SumMarkerLen(text.tail)
                + (IF TokenCount(text) > 0 THEN TokenCount(text) - 1 ELSE 0),
     alnum |-> 2 * text.short_words + text.long + SumMarkerLen(text.tail),
     words |-> text.short_words + (IF text.long >= 2 THEN 1 ELSE 0) + Len(text.tail),
     markers |-> Cardinality({text.tail[k] : k \in 1..Len(text.tail)})]

\* s + " " + m
AppendMarkerTo(text, m) == [text EXCEPT !.tail = Append(@, m)]

ScorerIdle(text) ==
    [text |-> text, appends |-> 0, marker |-> "", before |-> 0, after |-> 0]

(***************************************************************************)
(* Submit endpoint: data                                                   *)
(***************************************************************************)
\* main.py:318-320  OCRRequest.image_url
ImageUrls == {"", "https://host/a.png", "s3://bucket/a.pdf"}

\* main.py:326-330  job_payload: id, url and status, and nothing else
Submitted(url) == [Absent EXCEPT !.kind = "json", !.status = "QUEUED", !.url = url]

\* Mutant: the id is pushed before the record is stored.
SubmitOrder_PushFirst == <<"rpush", "set">>

\* main.py:331-332  r.set(...), then r.rpush(...)
SubmitOrder == <<"set", "rpush">>

SubmitIdle == [pc |-> "idle", url |-> "", step |-> 0]

\* What a submit_job request leaves alone.
submitBystanders == <<crashed, kvFaulty, lastEnd, wk, engineVars, reconVars, requestVars, storageVars, lambdaVars, processorVars, textractVars, providerSetVars, patternStoreVars, scorerVars, knowledgeVars>>

(***************************************************************************)
(* Pattern knowledge retrieval: data                                       *)
(***************************************************************************)
\* Bound: the most entries of a local pattern file that is drawn.
MaxFileEntries == 2

DocTypes == {"invoice", "generic"}

\* accuracy_score values, in hundredths.
LocalAccuracies == {50, 90}

\* What get_pattern_knowledge returns when there is no pattern (None).
NoPattern == [origin |-> "none", doc_type |-> "", scored |-> FALSE, accuracy_score |-> 0]

\* learning_engine.py:72-79  an entry of the local file; scored is false for
\* an entry without the accuracy_score key
LocalEntries ==
    {[origin |-> "local", doc_type |-> t, scored |-> TRUE, accuracy_score |-> a] : t \in DocTypes, a \in LocalAccuracies}
    \cup {[origin |-> "local", doc_type |-> t, scored |-> FALSE, accuracy_score |-> 0] : t \in DocTypes}

\* The file at storage_path: missing, not parseable as JSON, or a list of
\* entries.
LocalFiles ==
    {[exists |-> FALSE, valid |-> FALSE, entries |-> <<>>], [exists |-> TRUE, valid |-> FALSE, entries |-> <<>>]}
    \cup {[exists |-> TRUE, valid |-> TRUE, entries |-> s] : s \in SeqsUpTo(LocalEntries, MaxFileEntries)}

\* The rows the learning_patterns table of the cloud backend may hold.
CloudRows ==
    {[origin |-> "cloud", doc_type |-> "invoice", scored |-> TRUE, accuracy_score |-> 70],
     [origin |-> "cloud", doc_type |-> "invoice", scored |-> TRUE, accuracy_score |-> 95],
     [origin |-> "cloud", doc_type |-> "generic", scored |-> TRUE, accuracy_score |-> 70]}

CloudOutcomesOfFetch == {"ok", "error"}

\* learning_engine.py:104-111  select * where doc_type = doc_type, ordered by
\* accuracy_score descending, limit 1: the data of the response
CloudSelect(table, doc_type) ==
    LET matching == {r \in table : r.doc_type = doc_type}
    IN  IF matching = {}
        THEN <<>>
        ELSE <<CHOOSE r \in matching :
                   \A q \in matching : r.accuracy_score >= q.accuracy_score>>

\* learning_engine.py:144-151  a missing file and a file that does not load
\* both give the empty list
LoadPatternFile(file) ==
    IF ~file.exists THEN <<>> ELSE IF ~file.valid THEN <<>> ELSE file.entries

\* learning_engine.py:139  key=lambda x: x.get("accuracy_score", 0.0)
AccuracyKey(p) == IF p.scored THEN p.accuracy_score ELSE 0

\* list.sort(key=..., reverse=True) is stable: entries of equal key keep
\* their order.
RECURSIVE InsertByAccuracy(_, _)
InsertByAccuracy(p, sorted) ==
    IF sorted = <<>>
    THEN <<p>>
    ELSE IF AccuracyKey(Head(sorted)) >= AccuracyKey(p)
         THEN <<Head(sorted)>> \o InsertByAccuracy(p, Tail(sorted))
         ELSE <<p>> \o sorted

RECURSIVE SortByAccuracy(_)
SortByAccuracy(matches) ==
    IF matches = <<>>
    THEN <<>>
    ELSE InsertByAccuracy(matches[Len(matches)],
                          SortByAccuracy(SubSeq(matches, 1, Len(matches) - 1)))

\* Mutant: the first match is returned without sorting.
FetchLocal_Unsorted(file, doc_type) ==
    LET patterns == LoadPatternFile(file)
        matches == SelectSeq(patterns, LAMBDA p : p.doc_type = doc_type)
    IN  IF matches = <<>> THEN NoPattern ELSE matches[1]

\* learning_engine.py:133-142  _fetch_local
FetchLocal(file, doc_type) ==
    LET patterns == LoadPatternFile(file)
        matches == SelectSeq(patterns, LAMBDA p : p.doc_type = doc_type)
    IN  IF matches = <<>> THEN NoPattern ELSE SortByAccuracy(matches)[1]

KnowledgeIdle(client, table, file) ==
    [pc |-> "idle", client |-> client, table |-> table, file |-> file,
     doc_type |-> "", cloud |-> "none", returned |-> NoPattern]

(***************************************************************************)
(* The components a specification leaves alone                             *)
(***************************************************************************)
WorkerParked ==
    /\ kv = [j \in Jobs |-> Absent]
    /\ queue = <<>>
    /\ deliveries = [j \in Jobs |-> 0]
    /\ crashed = FALSE
    /\ kvFaulty = FALSE
    /\ lastEnd = [j \in Jobs |-> "none"]
    /\ wk = [w \in Workers |-> IdleWorker]

EngineParked == eng = EngineIdle(0)

ReconParked == rc = ReconIdle(<<>>)

RequestParked == rq = RequestIdle(0)

StorageParked == st = StorageIdle(0, FALSE, FALSE)

LambdaParked == lh = LambdaIdle(<<>>)

ProcessorParked == pr = ProcessorIdle

TextractParked == tx = TextractIdle(0)

ProviderSetParked == ps = ProviderSetIdle({}, FALSE)

PatternStoreParked == ls = PatternStoreIdle(0)

ScorerParked == sc = ScorerIdle([short_words |-> 0, punct |-> 0, long |-> 0, tail |-> <<>>])

SubmitParked == sb = [j \in Jobs |-> SubmitIdle]

KnowledgeParked == kn = KnowledgeIdle(FALSE, {}, [exists |-> FALSE, valid |-> FALSE, entries |-> <<>>])

InitWorker ==
    /\ \E v \in {Absent, Garbage} \cup {Queued(p) : p \in Payloads} :
          kv = [j \in Jobs |-> v]
    /\ queue \in {<<j>> : j \in Jobs}
    /\ deliveries = [j \in Jobs |-> 1]
    /\ crashed = FALSE
    /\ kvFaulty = FALSE
    /\ lastEnd = [j \in Jobs |-> "none"]
    /\ wk = [w \in Workers |-> IdleWorker]
    /\ EngineParked
    /\ ReconParked
    /\ RequestParked
    /\ StorageParked
    /\ LambdaParked
    /\ ProcessorParked
    /\ TextractParked
    /\ ProviderSetParked
    /\ PatternStoreParked
    /\ ScorerParked
    /\ SubmitParked
    /\ KnowledgeParked

\* worker.py:46-53  blpop, then process_job(job_id)
Pop(w) ==
    /\ wk[w].pc \in AtBlpop
    /\ queue # <<>>
    /\ wk' = [wk EXCEPT ![w] = [IdleWorker EXCEPT !.pc = "get", !.job = Head(queue)]]
    /\ queue' = Tail(queue)
    /\ UNCHANGED <<kv, deliveries, crashed, kvFaulty, lastEnd, nonWorkerVars>>

\* worker.py:64-69  redis get outside the try; a missing record is skipped
GetRecord(w) ==
    /\ wk[w].pc = "get"
    /\ \E ok \in KvOutcomes :
         IF ~ok
         THEN /\ wk' = [wk EXCEPT ![w] = Ended([@ EXCEPT !.exc = ConnectionError], "raised")]
              /\ lastEnd' = [lastEnd EXCEPT ![wk[w].job] = "raised"]
         ELSE IF kv[wk[w].job].kind = "absent"
              THEN /\ wk' = [wk EXCEPT ![w] = Ended(@, "returned")]
                   /\ lastEnd' = [lastEnd EXCEPT ![wk[w].job] = "skipped"]
              ELSE /\ wk' = [wk EXCEPT ![w].pc = "mark", ![w].raw = kv[wk[w].job],
                                       ![w].found = TRUE,
                                       ![w].seen = kv[wk[w].job].status]
                   /\ UNCHANGED lastEnd
    /\ UNCHANGED <<kv, queue, deliveries, crashed, kvFaulty, nonWorkerVars>>

\* worker.py:72-77  json.loads, status PROCESSING, redis set
SetProcessing(w) ==
    /\ wk[w].pc = "mark"
    /\ IF wk[w].raw.kind = "garbage"
       THEN /\ wk' = [wk EXCEPT ![w].pc = "fail_get", ![w].exc = JSONDecodeError]
            /\ UNCHANGED kv
       ELSE \E ok \in KvOutcomes :
              IF ok
              THEN /\ kv' = [kv EXCEPT ![wk[w].job] = MarkProcessing(wk[w].raw)]
                   /\ wk' = [wk EXCEPT ![w].pc = "ocr",
                                       ![w].job_data = MarkProcessing(wk[w].raw),
                                       ![w].written = MarkProcessing(wk[w].raw)]
              ELSE /\ wk' = [wk EXCEPT ![w].pc = "fail_get",
                                       ![w].job_data = MarkProcessing(wk[w].raw),
                                       ![w].exc = ConnectionError]
                   /\ UNCHANGED kv
    /\ UNCHANGED <<queue, deliveries, crashed, kvFaulty, lastEnd, nonWorkerVars>>

\* worker.py:86 and 100-139  _execute_ocr: resolve the input, call the engine
\* (a synchronous call) and await what it returned
ExecuteOcr(w) ==
    /\ wk[w].pc = "ocr"
    /\ LET r == ResolveInput(wk[w].job_data) IN
       IF r.tag = "return"
       THEN wk' = [wk EXCEPT ![w].pc = "complete", ![w].result = r.result,
                             ![w].resolved = "early"]
       ELSE IF r.bytes = "number"
            \* validate_image: len() of a non-bytes object raises inside the engine
            THEN wk' = [wk EXCEPT ![w].pc = "fail_get", ![w].exc = TypeErrorLen,
                                  ![w].resolved = "nonbytes",
                                  ![w].engine_calls = @ + 1]
            ELSE \E raises \in BOOLEAN, v \in EngineValues :
                   IF raises
                   THEN wk' = [wk EXCEPT ![w].pc = "fail_get", ![w].exc = EngineError,
                                         ![w].resolved = "nonempty",
                                         ![w].engine_calls = @ + 1]
                   ELSE LET a == Await(EngineResult(v)) IN
                        IF a.raised
                        THEN wk' = [wk EXCEPT ![w].pc = "fail_get", ![w].exc = a.msg,
                                              ![w].resolved = "nonempty",
                                              ![w].engine_calls = @ + 1,
                                              ![w].engine_out = EngineResult(v)]
                        ELSE wk' = [wk EXCEPT ![w].pc = "complete",
                                              ![w].result = a.value,
                                              ![w].resolved = "nonempty",
                                              ![w].engine_calls = @ + 1,
                                              ![w].engine_out = EngineResult(v)]
    /\ UNCHANGED <<kv, queue, deliveries, crashed, kvFaulty, lastEnd, nonWorkerVars>>

\* worker.py:88-94  status COMPLETED, result, completed_at, redis set
SetCompleted(w) ==
    /\ wk[w].pc = "complete"
    /\ \E ok \in KvOutcomes :
         IF ok
         THEN /\ kv' = [kv EXCEPT ![wk[w].job] = MarkCompleted(wk[w].job_data, wk[w].result)]
              /\ wk' = [wk EXCEPT ![w] =
                           Ended([@ EXCEPT !.written = MarkCompleted(wk[w].job_data, wk[w].result)],
                                 "returned")]
              /\ lastEnd' = [lastEnd EXCEPT ![wk[w].job] = "returned"]
         ELSE /\ wk' = [wk EXCEPT ![w].pc = "fail_get", ![w].exc = ConnectionError]
              /\ UNCHANGED <<kv, lastEnd>>
    /\ UNCHANGED <<queue, deliveries, crashed, kvFaulty, nonWorkerVars>>

\* worker.py:143-145  _handle_job_failure: re-read the record
FailureGet(w) ==
    /\ wk[w].pc = "fail_get"
    /\ \E ok \in KvOutcomes :
         IF ok /\ kv[wk[w].job].kind # "absent"
         THEN /\ wk' = [wk EXCEPT ![w].pc = "fail_set", ![w].fraw = kv[wk[w].job]]
              /\ UNCHANGED lastEnd
         ELSE /\ wk' = [wk EXCEPT ![w] = Ended(@, "returned")]
              /\ lastEnd' = [lastEnd EXCEPT ![wk[w].job] = "returned"]
    /\ UNCHANGED <<kv, queue, deliveries, crashed, kvFaulty, nonWorkerVars>>

\* worker.py:146-154  json.loads, status FAILED, error, failed_at, redis set;
\* an exception raised here is logged and swallowed
FailureSet(w) ==
    /\ wk[w].pc = "fail_set"
    /\ IF wk[w].fraw.kind = "garbage"
       THEN /\ wk' = [wk EXCEPT ![w] = Ended(@, "returned")]
            /\ UNCHANGED kv
       ELSE \E ok \in KvOutcomes :
              IF ok
              THEN /\ kv' = [kv EXCEPT ![wk[w].job] = MarkFailed(wk[w].fraw, wk[w].exc)]
                   /\ wk' = [wk EXCEPT ![w] =
                                Ended([@ EXCEPT !.written = MarkFailed(wk[w].fraw, wk[w].exc)],
                                      "returned")]
              ELSE /\ wk' = [wk EXCEPT ![w] = Ended(@, "returned")]
                   /\ UNCHANGED kv
    /\ lastEnd' = [lastEnd EXCEPT ![wk[w].job] = "returned"]
    /\ UNCHANGED <<queue, deliveries, crashed, kvFaulty, nonWorkerVars>>

\* The worker process dies in the middle of a job; a new instance starts idle.
Crash(w) ==
    /\ wk[w].pc \in InRun
    /\ ~crashed
    /\ crashed' = TRUE
    /\ lastEnd' = [lastEnd EXCEPT ![wk[w].job] = "crashed"]
    /\ wk' = [wk EXCEPT ![w] = IdleWorker]
    /\ UNCHANGED <<kv, queue, deliveries, kvFaulty, nonWorkerVars>>

\* The same id is pushed to ocr_tasks again (at-least-once delivery).
Redeliver(j) ==
    /\ deliveries[j] < MaxDeliveries
    /\ deliveries' = [deliveries EXCEPT ![j] = @ + 1]
    /\ queue' = Append(queue, j)
    /\ UNCHANGED <<kv, crashed, kvFaulty, lastEnd, wk, nonWorkerVars>>

NextWorker ==
    \/ \E w \in Workers : Pop(w)
    \/ \E w \in Workers : GetRecord(w)
    \/ \E w \in Workers : SetProcessing(w)
    \/ \E w \in Workers : ExecuteOcr(w)
    \/ \E w \in Workers : SetCompleted(w)
    \/ \E w \in Workers : FailureGet(w)
    \/ \E w \in Workers : FailureSet(w)
    \/ \E w \in Workers : Crash(w)
    \/ \E j \in Jobs : Redeliver(j)

\* The worker against a Redis that answers every command.
SpecWorker == InitWorker /\ [][NextWorker]_vars

\* The worker against a Redis whose commands may raise ConnectionError.
InitWorkerFaulty ==
    /\ \E v \in {Absent, Garbage} \cup {Queued(p) : p \in Payloads} :
          kv = [j \in Jobs |-> v]
    /\ queue \in {<<j>> : j \in Jobs}
    /\ deliveries = [j \in Jobs |-> 1]
    /\ crashed = FALSE
    /\ kvFaulty = TRUE
    /\ lastEnd = [j \in Jobs |-> "none"]
    /\ wk = [w \in Workers |-> IdleWorker]
    /\ EngineParked
    /\ ReconParked
    /\ RequestParked
    /\ StorageParked
    /\ LambdaParked
    /\ ProcessorParked
    /\ TextractParked
    /\ ProviderSetParked
    /\ PatternStoreParked
    /\ ScorerParked
    /\ SubmitParked
    /\ KnowledgeParked

SpecWorkerFaulty == InitWorkerFaulty /\ [][NextWorker]_vars

(***************************************************************************)
(* Iterative OCR engine: process_image as a step machine                   *)
(***************************************************************************)
InitEngine ==
    /\ \E n \in 0..MaxIterations, max_size_mb \in ImageSizeLimits :
         eng = [EngineIdle(n) EXCEPT !.max_image_size_mb = max_size_mb]
    /\ WorkerParked
    /\ ReconParked
    /\ RequestParked
    /\ StorageParked
    /\ LambdaParked
    /\ ProcessorParked
    /\ TextractParked
    /\ ProviderSetParked
    /\ PatternStoreParked
    /\ ScorerParked
    /\ SubmitParked
    /\ KnowledgeParked

\* ocr_engine.py:202-213  validation, decoding, optional reconstruction, layout
StartProcessImage ==
    /\ eng.pc = "idle"
    /\ \E input \in ImageInputs(eng.max_image_size_mb), use_reconstruction \in BOOLEAN,
          recon_info \in BOOLEAN, regions \in 0..MaxRegions :
         LET validation == ValidateImage(input, eng.max_image_size_mb)
             started == [eng EXCEPT !.input = input,
                                    !.use_reconstruction = use_reconstruction,
                                    !.validation = validation]
         IN  IF validation # ""
             THEN eng' = [started EXCEPT !.pc = "done",
                                         !.response = ErrorResponse(validation)]
             ELSE IF ~input.decodable
                  THEN eng' = [started EXCEPT
                                  !.pc = "done",
                                  !.response = ErrorResponse("Corrupted or unsupported image format")]
                  ELSE eng' = [started EXCEPT
                                  !.pc = "loop",
                                  !.current_img = "image",
                                  !.recon_info = use_reconstruction /\ recon_info,
                                  !.layout_regions = regions]
    /\ UNCHANGED nonEngineVars

\* ocr_engine.py:215-233  one pass of the loop
Iterate ==
    /\ eng.pc = "loop"
    /\ eng.i < eng.max_iterations
    /\ \E fault \in {"none", "preprocess", "region"}, full \in Texts, regional \in Texts :
         LET r == RunSingleIteration(eng.current_img, eng.i, eng.best.confidence,
                                     eng.layout_regions, fault, full, regional)
         IN  eng' = [eng EXCEPT
                        !.iteration_history = Append(@, HistoryEntry(eng.i, r)),
                        !.passes = Append(@, [index |-> eng.i,
                                              best_before |-> eng.best.confidence,
                                              img |-> eng.current_img,
                                              fault |-> fault,
                                              region_attempted |-> r.region_attempted]),
                        !.best = UpdateBest(eng.best, r),
                        !.current_img = r.next_img,
                        !.i = eng.i + 1]
    /\ UNCHANGED nonEngineVars

\* ocr_engine.py:235-237  the loop is over: build the response
FinishProcessImage ==
    /\ eng.pc = "loop"
    /\ eng.i >= eng.max_iterations
    /\ eng' = [eng EXCEPT
                  !.pc = "done",
                  !.response = BuildProcessResponse(eng.best.text, eng.best.confidence,
                                                    eng.iteration_history, eng.recon_info)]
    /\ UNCHANGED nonEngineVars

NextEngine ==
    \/ StartProcessImage
    \/ Iterate
    \/ FinishProcessImage

SpecEngine == InitEngine /\ [][NextEngine]_vars

(***************************************************************************)
(* Vision provider set: reconstruct_with_ai as a step machine              *)
(***************************************************************************)
InitRecon ==
    /\ \E providers \in Registrations : rc = ReconIdle(providers)
    /\ WorkerParked
    /\ EngineParked
    /\ RequestParked
    /\ StorageParked
    /\ LambdaParked
    /\ ProcessorParked
    /\ TextractParked
    /\ ProviderSetParked
    /\ PatternStoreParked
    /\ ScorerParked
    /\ SubmitParked
    /\ KnowledgeParked

\* advanced_recon.py:90-94  resolve the primary provider
ReconstructWithAi ==
    /\ rc.pc = "idle"
    /\ \E requested \in RequestedNames, fallback \in BOOLEAN :
         LET primary == GetPrimaryProvider(rc.providers, requested)
             called == [rc EXCEPT !.requested = requested, !.fallback = fallback,
                                  !.primary = primary]
         IN  IF primary = NoProvider
             THEN rc' = [called EXCEPT !.pc = "done",
                                       !.result = ReconError("No AI providers configured")]
             ELSE rc' = [called EXCEPT !.pc = "primary"]
    /\ UNCHANGED nonReconVars

\* advanced_recon.py:96-112  the primary provider's call returns or raises
CallPrimary ==
    /\ rc.pc = "primary"
    /\ \/ rc' = [rc EXCEPT !.pc = "done",
                           !.calls = Append(@, [name |-> rc.primary, ok |-> TRUE]),
                           !.result = ProviderResult(rc.primary)]
       \/ \E e \in ProviderExceptions :
            LET failed == [rc EXCEPT !.calls = Append(@, [name |-> rc.primary, ok |-> FALSE])]
            IN  IF rc.fallback
                THEN rc' = [failed EXCEPT !.pc = "fallback",
                                          !.order = FallbackOrder(rc.providers, rc.primary),
                                          !.idx = 1]
                ELSE rc' = [failed EXCEPT !.pc = "done", !.result = FormatError(e)]
    /\ UNCHANGED nonReconVars

\* advanced_recon.py:158-168  one provider of the fallback loop returns or raises
TryFallback ==
    /\ rc.pc = "fallback"
    /\ rc.idx <= Len(rc.order)
    /\ LET name == rc.order[rc.idx]
       IN  \/ rc' = [rc EXCEPT !.pc = "done",
                               !.calls = Append(@, [name |-> name, ok |-> TRUE]),
                               !.result = ProviderResult(name)]
           \/ rc' = [rc EXCEPT !.calls = Append(@, [name |-> name, ok |-> FALSE]),
                               !.idx = @ + 1]
    /\ UNCHANGED nonReconVars

\* advanced_recon.py:170  every other provider raised
FallbackExhausted ==
    /\ rc.pc = "fallback"
    /\ rc.idx > Len(rc.order)
    /\ rc' = [rc EXCEPT !.pc = "done", !.result = AllProvidersFailed]
    /\ UNCHANGED nonReconVars

NextRecon ==
    \/ ReconstructWithAi
    \/ CallPrimary
    \/ TryFallback
    \/ FallbackExhausted

SpecRecon == InitRecon /\ [][NextRecon]_vars

(***************************************************************************)
(* Vision providers' shared request policy: _request_with_retry            *)
(***************************************************************************)
InitRequest ==
    /\ \E n \in 0..MaxRetries : rq = RequestIdle(n)
    /\ WorkerParked
    /\ EngineParked
    /\ ReconParked
    /\ StorageParked
    /\ LambdaParked
    /\ ProcessorParked
    /\ TextractParked
    /\ ProviderSetParked
    /\ PatternStoreParked
    /\ ScorerParked
    /\ SubmitParked
    /\ KnowledgeParked

\* ai_providers.py:94-96  the call enters the loop
RequestWithRetry ==
    /\ rq.pc = "idle"
    /\ rq' = [rq EXCEPT !.pc = "loop"]
    /\ UNCHANGED nonRequestVars

\* ai_providers.py:96-139  one turn of the loop, up to its sleep, return or raise
SendRequest ==
    /\ rq.pc = "loop"
    /\ rq.attempt < rq.max_retries
    /\ \E outcome \in RequestOutcomes :
         LET sent == [rq EXCEPT !.requests = @ + 1]
         IN  CASE outcome = "HTTPError" ->
                    IF rq.attempt = rq.max_retries - 1
                    THEN rq' = [sent EXCEPT !.transport_failures = @ + 1,
                                            !.pc = "raised",
                                            !.error = "HTTP error after attempts"]
                    ELSE rq' = [sent EXCEPT !.transport_failures = @ + 1,
                                            !.attempt = rq.attempt + 1,
                                            !.sleeps = Append(@, Backoff(rq.attempt + 1)),
                                            !.pc = "sleep"]
               [] outcome = "429" ->
                    rq' = [sent EXCEPT !.rate_limited = @ + 1,
                                       !.sleeps = Append(@, Backoff(rq.attempt)),
                                       !.attempt = AttemptAfterRateLimit(rq.attempt),
                                       !.pc = "sleep"]
               [] outcome = "200" ->
                    rq' = [sent EXCEPT !.pc = "returned", !.returned = TRUE]
               [] OTHER ->
                    rq' = [sent EXCEPT !.pc = "raised", !.error = "HTTP status error"]
    /\ UNCHANGED nonRequestVars

\* ai_providers.py:115-116, 121-123  the sleep is over: continue
BackoffElapsed ==
    /\ rq.pc = "sleep"
    /\ rq' = [rq EXCEPT !.pc = "loop"]
    /\ UNCHANGED nonRequestVars

\* ai_providers.py:141  the loop ran out of attempts
RetriesExceeded ==
    /\ rq.pc = "loop"
    /\ rq.attempt >= rq.max_retries
    /\ rq' = [rq EXCEPT !.pc = "raised", !.error = "Exceeded maximum retry attempts"]
    /\ UNCHANGED nonRequestVars

NextRequest ==
    \/ RequestWithRetry
    \/ SendRequest
    \/ BackoffElapsed
    \/ RetriesExceeded

SpecRequest == InitRequest /\ [][NextRequest]_vars

(***************************************************************************)
(* Object store: StorageService as a step machine                          *)
(***************************************************************************)
InitStorage ==
    /\ \E n \in 0..MaxAwsRetries, bucket \in BOOLEAN, client \in BOOLEAN :
         st = StorageIdle(n, bucket, client)
    /\ WorkerParked
    /\ EngineParked
    /\ ReconParked
    /\ RequestParked
    /\ LambdaParked
    /\ ProcessorParked
    /\ TextractParked
    /\ ProviderSetParked
    /\ PatternStoreParked
    /\ ScorerParked
    /\ SubmitParked
    /\ KnowledgeParked

\* storage.py:132-184  an entry point is called and reaches put_object or not
StorageCall ==
    /\ st.pc = "idle"
    /\ \E entry \in StorageEntries, serializable \in BOOLEAN :
         LET called == [st EXCEPT !.entry = entry]
             configured == st.s3_client /\ st.bucket_name
         IN  IF entry \in {"save_json", "upload_json"} /\ ~serializable
             THEN st' = [called EXCEPT !.pc = "done",
                                                  !.result = EntryResult(entry, FALSE)]
             ELSE IF ~configured
                  THEN st' = [called EXCEPT
                                   !.pc = "done",
                                   !.put_result = IF entry = "upload_file" THEN "none" ELSE "False",
                                   !.result = EntryResult(entry, FALSE)]
                  ELSE st' = [called EXCEPT !.pc = "putting"]
    /\ UNCHANGED nonStorageVars

\* storage.py:185-213  one attempt of _do_put under the retry decorator
DoPut ==
    /\ st.pc = "putting"
    /\ \E outcome \in PutOutcomes :
         LET tried == [st EXCEPT !.attempts = Append(@, outcome)]
             attempt_number == Len(st.attempts) + 1
         IN  IF outcome = "ok"
             THEN st' = [tried EXCEPT !.pc = "done", !.put_result = "True",
                                      !.result = EntryResult(st.entry, TRUE)]
             ELSE IF RetryIfClientError(outcome)
                     /\ ~StopAfterAttempt(attempt_number, st.max_retries)
                  THEN st' = tried
                  ELSE st' = [tried EXCEPT !.pc = "done", !.put_result = "False",
                                           !.result = EntryResult(st.entry, FALSE)]
    /\ UNCHANGED nonStorageVars

NextStorage ==
    \/ StorageCall
    \/ DoPut

SpecStorage == InitStorage /\ [][NextStorage]_vars

(***************************************************************************)
(* Event handler: lambda_handler.handler as a step machine                 *)
(***************************************************************************)
InitLambda ==
    /\ \E output_prefix \in OutputPrefixes : lh = LambdaIdle(output_prefix)
    /\ WorkerParked
    /\ EngineParked
    /\ ReconParked
    /\ RequestParked
    /\ StorageParked
    /\ ProcessorParked
    /\ TextractParked
    /\ ProviderSetParked
    /\ PatternStoreParked
    /\ ScorerParked
    /\ SubmitParked
    /\ KnowledgeParked

\* lambda_handler.py:20-24  the handler is invoked with a batch
Handler ==
    /\ lh.pc = "idle"
    /\ \E context_id \in ContextIds, n \in 0..MaxRecords :
         lh' = [lh EXCEPT !.pc = "loop", !.request_id = RequestIdOf(context_id),
                          !.records = n]
    /\ UNCHANGED nonLambdaVars

\* lambda_handler.py:25-29  the next record of the batch is processed
ProcessRecord ==
    /\ lh.pc = "loop"
    /\ lh.i < lh.records
    /\ \E bucket \in BucketNames, raw_key \in KeySamples, outcome \in TextractOutcomes, saved \in BOOLEAN :
         LET r == ProcessS3Record(bucket, raw_key, lh.request_id, lh.output_prefix, outcome, saved)
         IN  lh' = [lh EXCEPT
                       !.i = @ + 1,
                       !.failures = IF r.raised # "" THEN @ + 1 ELSE @,
                       !.raised = Append(@, r.raised # ""),
                       !.persisted = Append(@, r.persisted),
                       !.last = [bucket |-> bucket, raw_key |-> raw_key,
                                 outcome |-> outcome, skipped |-> r.skipped,
                                 raised |-> r.raised, calls |-> r.calls,
                                 writes |-> r.writes]]
    /\ UNCHANGED nonLambdaVars

\* lambda_handler.py:31-35  the batch is over
HandlerReturn ==
    /\ lh.pc = "loop"
    /\ lh.i >= lh.records
    /\ lh' = [lh EXCEPT
                 !.pc = "done",
                 !.response = HandlerResponse(lh.failures)]
    /\ UNCHANGED nonLambdaVars

NextLambda ==
    \/ Handler
    \/ ProcessRecord
    \/ HandlerReturn

SpecLambda == InitLambda /\ [][NextLambda]_vars

(***************************************************************************)
(* Processor: OCRProcessor.process_bytes as a step machine                 *)
(***************************************************************************)
InitProcessor ==
    /\ pr = ProcessorIdle
    /\ WorkerParked
    /\ EngineParked
    /\ ReconParked
    /\ RequestParked
    /\ StorageParked
    /\ LambdaParked
    /\ TextractParked
    /\ ProviderSetParked
    /\ PatternStoreParked
    /\ ScorerParked
    /\ SubmitParked
    /\ KnowledgeParked

\* processor.py:55-73  process_bytes is called
ProcessBytes ==
    /\ pr.pc = "idle"
    /\ \E input \in ImageInputs(MaxImageSizeMb), advanced \in BOOLEAN,
          reconstruct \in BOOLEAN, enable_reconstruction_config \in BOOLEAN,
          request_id \in CallerRequestIds :
         pr' = [pr EXCEPT !.pc = IF advanced THEN "advanced" ELSE "standard",
                          !.input = input, !.advanced = advanced,
                          !.use_recon = reconstruct \/ enable_reconstruction_config,
                          !.request_id = request_id]
    /\ UNCHANGED nonProcessorVars

\* processor.py:127-130 with 104-109: process_image is called and its return
\* value awaited
ExecuteStandard ==
    /\ pr.pc = "standard"
    /\ \E recon_meta \in BOOLEAN :
         LET call == ProcessImageCall(pr.input, pr.use_recon, recon_meta)
             awaited == Await(call.result)
             ran == [pr EXCEPT !.did = @ \cup call.ops, !.result = call.result]
         IN  IF awaited.raised
             THEN pr' = [ran EXCEPT
                            !.pc = "done",
                            !.response = HttpError(500, "Internal processing failure in OCR orchestrator")]
             ELSE pr' = [ran EXCEPT !.pc = "check"]
    /\ UNCHANGED nonProcessorVars

\* ocr_engine.py:299-309  process_image_advanced: validation, then layout analysis
AdvancedStart ==
    /\ pr.pc = "advanced"
    /\ LET validation == ValidateImage(pr.input, MaxImageSizeMb)
       IN  IF validation # ""
           THEN pr' = [pr EXCEPT !.pc = "check", !.did = @ \cup {"validate"},
                                 !.result = [returned |-> TRUE, error |-> validation,
                                             method |-> "",
                                             reconstruction_meta |-> FALSE]]
           ELSE pr' = [pr EXCEPT !.pc = "pattern",
                                 !.did = @ \cup {"validate", "layout"}]
    /\ UNCHANGED nonProcessorVars

\* ocr_engine.py:312-314  the pattern store is asked for the document type
AdvancedPattern ==
    /\ pr.pc = "pattern"
    /\ pr' = [pr EXCEPT !.pc = "ai", !.did = @ \cup {"pattern_store"}]
    /\ UNCHANGED nonProcessorVars

\* ocr_engine.py:322-352  reconstruct_with_ai answers with a result or an error
AdvancedReconstruct ==
    /\ pr.pc = "ai"
    /\ \E ai_ok \in BOOLEAN :
         IF ai_ok
         THEN pr' = [pr EXCEPT !.pc = IF LearningIsAwaited THEN "learning" ELSE "check",
                               !.did = @ \cup {"vision_provider", "learn"},
                               !.ai_result = "ok",
                               !.learning.state = "scheduled",
                               !.result = AdvancedResult]
         ELSE pr' = [pr EXCEPT !.pc = "fallback", !.did = @ \cup {"vision_provider"},
                               !.ai_result = "error"]
    /\ UNCHANGED nonProcessorVars

\* ocr_engine.py:326-330  the iterative fallback: process_image run in a thread
AdvancedFallback ==
    /\ pr.pc = "fallback"
    /\ \E recon_meta \in BOOLEAN :
         LET call == ProcessImageCall(pr.input, FallbackUseReconstruction, recon_meta)
         IN  pr' = [pr EXCEPT !.pc = "check", !.did = @ \cup call.ops,
                              !.fallback = [called |-> TRUE, input |-> pr.input,
                                            use_reconstruction |->
                                                FallbackUseReconstruction],
                              !.result = call.result]
    /\ UNCHANGED nonProcessorVars

\* learning_engine.py:61-93  the scheduled learn_from_result task runs
LearnFromResult ==
    /\ pr.learning.state = "scheduled"
    /\ \E cloud \in CloudOutcomes, local \in LocalOutcomes :
         LET learned == [pr EXCEPT !.learning = LearnFromResultOutcome(cloud, local)]
         IN  IF pr.pc # "learning"
             THEN pr' = learned
             ELSE IF learned.learning.task_exception
                  THEN pr' = [learned EXCEPT
                                 !.pc = "done",
                                 !.response = HttpError(500, "Internal processing failure in OCR orchestrator")]
                  ELSE pr' = [learned EXCEPT !.pc = "check"]
    /\ UNCHANGED nonProcessorVars

\* processor.py:78-81  an error result becomes a 400
RejectResult ==
    /\ pr.pc = "check"
    /\ pr.result.error # ""
    /\ pr' = [pr EXCEPT !.pc = "done", !.response = HttpError(400, pr.result.error)]
    /\ UNCHANGED nonProcessorVars

\* processor.py:84-100, 132-155  the uploads are gathered and the result returned
PersistAndReturn ==
    /\ pr.pc = "check"
    /\ pr.result.error = ""
    /\ \E raw \in UploadResults, meta \in UploadResults :
         LET uploads == IF pr.result.reconstruction_meta
                        THEN <<[op |-> "upload_file", value |-> raw],
                               [op |-> "upload_json", value |-> meta]>>
                        ELSE <<[op |-> "upload_file", value |-> raw]>>
         IN  pr' = [pr EXCEPT
                       !.pc = "done",
                       !.uploads = uploads,
                       !.response = Enriched(pr.result, Str(uploads[1].value),
                                             pr.request_id)]
    /\ UNCHANGED nonProcessorVars

NextProcessor ==
    \/ ProcessBytes
    \/ ExecuteStandard
    \/ AdvancedStart
    \/ AdvancedPattern
    \/ AdvancedReconstruct
    \/ AdvancedFallback
    \/ LearnFromResult
    \/ RejectResult
    \/ PersistAndReturn

SpecProcessor == InitProcessor /\ [][NextProcessor]_vars

(***************************************************************************)
(* Cloud OCR service: TextractService as a step machine                    *)
(***************************************************************************)
InitTextract ==
    /\ \E n \in 0..MaxAwsRetries : tx = TextractIdle(n)
    /\ WorkerParked
    /\ EngineParked
    /\ ReconParked
    /\ RequestParked
    /\ StorageParked
    /\ LambdaParked
    /\ ProcessorParked
    /\ ProviderSetParked
    /\ PatternStoreParked
    /\ ScorerParked
    /\ SubmitParked
    /\ KnowledgeParked

\* textract.py:47, 72, 105  one of the service's operations is called
CallTextract ==
    /\ tx.pc = "idle"
    /\ \E operation \in TextractOperations :
         tx' = [tx EXCEPT !.operation = operation,
                          !.pc = IF operation = "get_job_results" THEN "polling"
                                 ELSE "calling"]
    /\ UNCHANGED nonTextractVars

\* textract.py:51-70, 81-103  one attempt of the decorated client call
TextractAttempt ==
    /\ tx.pc = "calling"
    /\ \E outcome \in TextractCallOutcomes :
         LET tried == [tx EXCEPT !.attempts = Append(@, outcome)]
             attempt_number == Len(tx.attempts) + 1
             failure == TextractFailure(tx.operation)
         IN  IF outcome \in {"ok", "NoJobId"}
             THEN tx' = [tried EXCEPT !.pc = "done", !.returned = TRUE,
                                      !.value = TextractValue(tx.operation, outcome)]
             ELSE IF RetryIfClientError(outcome)
                     /\ ~StopAfterAttempt(attempt_number, tx.max_retries)
                  THEN tx' = [tried EXCEPT !.pc = "waiting"]
                  ELSE tx' = [tried EXCEPT !.pc = "done",
                                           !.returned = failure.returned,
                                           !.value = failure.value,
                                           !.raised = failure.raised]
    /\ UNCHANGED nonTextractVars

\* textract.py:53, 83  wait_exponential: the wait before the next attempt is over
TextractBackoff ==
    /\ tx.pc = "waiting"
    /\ tx' = [tx EXCEPT !.pc = "calling"]
    /\ UNCHANGED nonTextractVars

\* textract.py:108-124  one poll of the asynchronous job
PollJob ==
    /\ tx.pc = "polling"
    /\ tx.polls < MaxPollAttempts
    /\ \E outcome \in PollOutcomes :
         CASE outcome = "SUCCEEDED" ->
                tx' = [tx EXCEPT !.pc = "done", !.returned = TRUE, !.value = "pages"]
           [] outcome = "FAILED" ->
                tx' = [tx EXCEPT !.pc = "done", !.raised = "RuntimeError: Job failed"]
           [] outcome = "ClientError" ->
                tx' = [tx EXCEPT !.pc = "done", !.raised = "ClientError"]
           [] OTHER ->
                tx' = [tx EXCEPT !.polls = @ + 1]
    /\ UNCHANGED nonTextractVars

\* textract.py:125  the job did not finish within MAX_POLL_ATTEMPTS polls
PollTimeout ==
    /\ tx.pc = "polling"
    /\ tx.polls >= MaxPollAttempts
    /\ tx' = [tx EXCEPT !.pc = "done", !.raised = "RuntimeError: Timeout"]
    /\ UNCHANGED nonTextractVars

NextTextract ==
    \/ CallTextract
    \/ TextractAttempt
    \/ TextractBackoff
    \/ PollJob
    \/ PollTimeout

SpecTextract == InitTextract /\ [][NextTextract]_vars

(***************************************************************************)
(* Vision provider set and its HTTP clients as a step machine              *)
(***************************************************************************)
InitProviderSet ==
    /\ \E configured \in SUBSET ProviderNames, injected \in BOOLEAN :
         ps = ProviderSetIdle(configured, injected)
    /\ WorkerParked
    /\ EngineParked
    /\ ReconParked
    /\ RequestParked
    /\ StorageParked
    /\ LambdaParked
    /\ ProcessorParked
    /\ TextractParked
    /\ PatternStoreParked
    /\ ScorerParked
    /\ SubmitParked
    /\ KnowledgeParked

\* ai_providers.py:77-81, 94  a provider of the set sends a request and asks
\* for its client first
ProviderRequest ==
    /\ ps.pc = "open"
    /\ \E name \in ps.configured :
         LET got == GetClient(ps.client[name], ps.own_client[name], name)
         IN  ps' = [ps EXCEPT !.client[name] = got.client,
                              !.own_client[name] = got.own_client,
                              !.used = @ \cup {got.client}]
    /\ UNCHANGED nonProviderSetVars

\* advanced_recon.py:58-62  close() is called on the set
CloseSet ==
    /\ ps.pc = "open"
    /\ ps' = [ps EXCEPT !.pc = "closing", !.i = 1]
    /\ UNCHANGED nonProviderSetVars

\* advanced_recon.py:60-62, ai_providers.py:71-75  close() reaches the next
\* provider in registration order
CloseProvider ==
    /\ ps.pc = "closing"
    /\ ps.i <= Len(DefaultOrder)
    /\ LET name == DefaultOrder[ps.i]
           client == ps.client[name]
       IN  IF name \in ps.configured /\ ClosesClient(client, ps.own_client[name])
           THEN ps' = [ps EXCEPT !.aclose[client] = @ + 1,
                                 !.client[name] = NoClient,
                                 !.i = @ + 1]
           ELSE ps' = [ps EXCEPT !.i = @ + 1]
    /\ UNCHANGED nonProviderSetVars

\* advanced_recon.py:60  the loop of close() is over
CloseReturn ==
    /\ ps.pc = "closing"
    /\ ps.i > Len(DefaultOrder)
    /\ ps' = [ps EXCEPT !.pc = "closed"]
    /\ UNCHANGED nonProviderSetVars

NextProviderSet ==
    \/ ProviderRequest
    \/ CloseSet
    \/ CloseProvider
    \/ CloseReturn

SpecProviderSet == InitProviderSet /\ [][NextProviderSet]_vars

(***************************************************************************)
(* Pattern store's local file as a step machine                            *)
(***************************************************************************)
InitPatternStore ==
    /\ \E count \in StoredCounts : ls = PatternStoreIdle(count)
    /\ WorkerParked
    /\ EngineParked
    /\ ReconParked
    /\ RequestParked
    /\ StorageParked
    /\ LambdaParked
    /\ ProcessorParked
    /\ TextractParked
    /\ ProviderSetParked
    /\ ScorerParked
    /\ SubmitParked
    /\ KnowledgeParked

\* learning_engine.py:61-75, 122-131  learn_from_result starts _save_local,
\* whose file work runs in a thread
RecordCall ==
    /\ ls.calls < MaxCalls
    /\ \E t \in Tasks :
         /\ ls.task[t].pc = "idle"
         /\ ls' = [ls EXCEPT !.calls = @ + 1,
                             !.task[t] = [pc |-> "load", op |-> "record",
                                          data |-> ls.stored + ls.calls + 1,
                                          patterns |-> <<>>]]
    /\ UNCHANGED nonPatternStoreVars

\* learning_engine.py:95-120, 133-142  get_pattern_knowledge reaches
\* _fetch_local, whose file work runs in a thread
FetchCall ==
    /\ ls.calls < MaxCalls
    /\ \E t \in Tasks :
         /\ ls.task[t].pc = "idle"
         /\ ls' = [ls EXCEPT !.calls = @ + 1,
                             !.task[t] = [pc |-> "load", op |-> "get_best",
                                          data |-> 0, patterns |-> <<>>]]
    /\ UNCHANGED nonPatternStoreVars

\* learning_engine.py:124-127  _save_local: load, append, keep the last 500
SaveLoad ==
    /\ \E t \in Tasks :
         /\ ls.task[t].pc = "load"
         /\ ls.task[t].op = "record"
         /\ ls' = [ls EXCEPT
                      !.task[t].patterns =
                          KeepRecent(Append(LoadPatterns(ls.file), ls.task[t].data)),
                      !.task[t].pc = "open",
                      !.half_read = @ \/ ~ls.file.complete]
    /\ UNCHANGED nonPatternStoreVars

\* learning_engine.py:128  open(storage_path, "w") empties the file
SaveOpen ==
    /\ \E t \in Tasks :
         /\ ls.task[t].pc = "open"
         /\ ls' = [ls EXCEPT !.file = [content |-> <<>>, complete |-> FALSE],
                             !.task[t].pc = "dump"]
    /\ UNCHANGED nonPatternStoreVars

\* learning_engine.py:129  json.dump writes the list and the file is closed
SaveDump ==
    /\ \E t \in Tasks :
         /\ ls.task[t].pc = "dump"
         /\ ls' = [ls EXCEPT !.file = [content |-> ls.task[t].patterns, complete |-> TRUE],
                             !.written = Append(@, ls.task[t].data),
                             !.task[t] = IdleTask]
    /\ UNCHANGED nonPatternStoreVars

\* learning_engine.py:134-142  _fetch_local: load and pick the best match
FetchLoad ==
    /\ \E t \in Tasks :
         /\ ls.task[t].pc = "load"
         /\ ls.task[t].op = "get_best"
         /\ ls' = [ls EXCEPT !.task[t] = IdleTask,
                             !.half_read = @ \/ ~ls.file.complete]
    /\ UNCHANGED nonPatternStoreVars

NextPatternStore ==
    \/ RecordCall
    \/ FetchCall
    \/ SaveLoad
    \/ SaveOpen
    \/ SaveDump
    \/ FetchLoad

SpecPatternStore == InitPatternStore /\ [][NextPatternStore]_vars

(***************************************************************************)
(* Confidence scorer on texts with appended markers                        *)
(***************************************************************************)
InitScorer ==
    /\ \E text \in SampleTexts : sc = ScorerIdle(text)
    /\ WorkerParked
    /\ EngineParked
    /\ ReconParked
    /\ RequestParked
    /\ StorageParked
    /\ LambdaParked
    /\ ProcessorParked
    /\ TextractParked
    /\ ProviderSetParked
    /\ PatternStoreParked
    /\ SubmitParked
    /\ KnowledgeParked

\* confidence.py:35-63  calculate(s) and calculate(s + " " + m)
ScoreWithMarker ==
    /\ sc.appends < MaxAppends
    /\ \E m \in Markers :
         LET appended == AppendMarkerTo(sc.text, m)
         IN  sc' = [text |-> appended, appends |-> sc.appends + 1, marker |-> m,
                    before |-> Calculate(Features(sc.text)),
                    after |-> Calculate(Features(appended))]
    /\ UNCHANGED nonScorerVars

NextScorer == ScoreWithMarker

SpecScorer == InitScorer /\ [][NextScorer]_vars

(***************************************************************************)
(* Submit endpoint and the queue worker together                           *)
(***************************************************************************)
InitSubmit ==
    /\ kv = [j \in Jobs |-> Absent]
    /\ queue = <<>>
    /\ deliveries = [j \in Jobs |-> 0]
    /\ crashed = FALSE
    /\ kvFaulty \in BOOLEAN
    /\ lastEnd = [j \in Jobs |-> "none"]
    /\ wk = [w \in Workers |-> IdleWorker]
    /\ sb = [j \in Jobs |-> SubmitIdle]
    /\ EngineParked
    /\ ReconParked
    /\ RequestParked
    /\ StorageParked
    /\ LambdaParked
    /\ ProcessorParked
    /\ TextractParked
    /\ ProviderSetParked
    /\ PatternStoreParked
    /\ ScorerParked
    /\ KnowledgeParked

\* main.py:323-330  POST /api/v1/extract arrives; the job gets its id
SubmitJob(j) ==
    /\ sb[j].pc = "idle"
    /\ \E url \in ImageUrls : sb' = [sb EXCEPT ![j] = [pc |-> "running", url |-> url, step |-> 0]]
    /\ UNCHANGED <<kv, queue, deliveries, submitBystanders>>

\* main.py:331-337  the next Redis command of submit_job; the response follows
\* the last one
SubmitCommand(j) ==
    /\ sb[j].pc = "running"
    /\ \E ok \in KvOutcomes :
         IF ~ok
         THEN /\ sb' = [sb EXCEPT ![j].pc = "raised"]
              /\ UNCHANGED <<kv, queue, deliveries>>
         ELSE /\ sb' = [sb EXCEPT ![j].step = @ + 1,
                                  ![j].pc = IF sb[j].step + 1 = Len(SubmitOrder)
                                            THEN "returned" ELSE "running"]
              /\ IF SubmitOrder[sb[j].step + 1] = "set"
                 THEN /\ kv' = [kv EXCEPT ![j] = Submitted(sb[j].url)]
                      /\ UNCHANGED <<queue, deliveries>>
                 ELSE /\ queue' = Append(queue, j)
                      /\ deliveries' = [deliveries EXCEPT ![j] = @ + 1]
                      /\ UNCHANGED kv
    /\ UNCHANGED submitBystanders

NextSubmit ==
    \/ \E j \in Jobs : SubmitJob(j)
    \/ \E j \in Jobs : SubmitCommand(j)
    \/ \E w \in Workers : Pop(w)
    \/ \E w \in Workers : GetRecord(w)
    \/ \E w \in Workers : SetProcessing(w)
    \/ \E w \in Workers : ExecuteOcr(w)
    \/ \E w \in Workers : SetCompleted(w)
    \/ \E w \in Workers : FailureGet(w)
    \/ \E w \in Workers : FailureSet(w)
    \/ \E w \in Workers : Crash(w)

SpecSubmit == InitSubmit /\ [][NextSubmit]_vars

(***************************************************************************)
(* Pattern knowledge retrieval: get_pattern_knowledge                      *)
(***************************************************************************)
InitKnowledge ==
    /\ \E client \in BOOLEAN, file \in LocalFiles :
         \E table \in (IF client THEN SUBSET CloudRows ELSE {{}}) :
             kn = KnowledgeIdle(client, table, file)
    /\ WorkerParked
    /\ EngineParked
    /\ ReconParked
    /\ RequestParked
    /\ StorageParked
    /\ LambdaParked
    /\ ProcessorParked
    /\ TextractParked
    /\ ProviderSetParked
    /\ PatternStoreParked
    /\ ScorerParked
    /\ SubmitParked

\* learning_engine.py:95-98  the call; the cloud is tried when there is a client
GetPatternKnowledge ==
    /\ kn.pc = "idle"
    /\ \E doc_type \in DocTypes :
         kn' = [kn EXCEPT !.doc_type = doc_type,
                          !.pc = IF kn.client THEN "cloud" ELSE "local"]
    /\ UNCHANGED nonKnowledgeVars

\* learning_engine.py:99-117  the cloud query: a first row is returned, no row
\* or an exception leads on to the local file
CloudFetch ==
    /\ kn.pc = "cloud"
    /\ \E outcome \in CloudOutcomesOfFetch :
         IF outcome = "error"
         THEN kn' = [kn EXCEPT !.cloud = "error", !.pc = "local"]
         ELSE LET data == CloudSelect(kn.table, kn.doc_type)
              IN  IF data # <<>>
                  THEN kn' = [kn EXCEPT !.cloud = "row", !.pc = "returned",
                                        !.returned = data[1]]
                  ELSE kn' = [kn EXCEPT !.cloud = "empty", !.pc = "local"]
    /\ UNCHANGED nonKnowledgeVars

\* learning_engine.py:119-120  return await self._fetch_local(doc_type)
LocalFetch ==
    /\ kn.pc = "local"
    /\ kn' = [kn EXCEPT !.pc = "returned",
                        !.returned = FetchLocal(kn.file, kn.doc_type)]
    /\ UNCHANGED nonKnowledgeVars

NextKnowledge ==
    \/ GetPatternKnowledge
    \/ CloudFetch
    \/ LocalFetch

SpecKnowledge == InitKnowledge /\ [][NextKnowledge]_vars

(***************************************************************************)
(* Claims about the queue worker                                           *)
(***************************************************************************)
\* No process_job run is under way on job j.
Quiet(j) == \A w \in Workers : wk[w].job = j => wk[w].pc \notin InRun

\* C1: every popped job id whose job:<id> record is present is left, once no run
\* on it is under way any more, with status COMPLETED or FAILED, whatever the
\* record holds and whichever step failed.
C1_PoppedJobEndsTerminal ==
    \A j \in Jobs :
        (kv[j].kind # "absent" /\ lastEnd[j] = "returned" /\ Quiet(j))
            => (kv[j].kind = "json" /\ kv[j].status \in Terminal)

\* C2: a run that resolved non-empty image bytes and whose engine call returned a
\* result without raising has written the record COMPLETED, with that result and
\* a completed_at stamp.
C2_EngineResultCompletesJob ==
    \A w \in Workers :
        (wk[w].pc = "returned" /\ wk[w].resolved = "nonempty" /\ wk[w].engine_out.present)
            => /\ wk[w].written.status = "COMPLETED"
               /\ wk[w].written.result = wk[w].engine_out
               /\ wk[w].written.completed_at

\* The payload's cases C3 is about.
NoUsableInput(d) ==
    \/ d.image_bytes.kind = "absent" /\ d.image_path.kind = "absent"
    \/ d.image_bytes.kind = "null"
    \/ d.image_bytes.kind = "str" /\ B64Decode(d.image_bytes.s) = B64Bytes(0)
    \/ d.image_bytes.kind = "absent" /\ d.image_path.file = "empty"

UndecodableInput(d) ==
    d.image_bytes.kind = "str" /\ ~B64Decode(d.image_bytes.s).ok

C3Expected(d) ==
    IF UndecodableInput(d) THEN "invalid_image_encoding" ELSE "missing_input"

\* C3: a job without usable input, or with image_bytes that cannot be
\* base64-decoded, is written COMPLETED (not FAILED) with result.error
\* missing_input, respectively invalid_image_encoding, without any engine call;
\* and COMPLETED is the status the record is left with.
C3_UnusableInputCompletes ==
    /\ \A w \in Workers :
          (wk[w].pc = "returned" /\ wk[w].found /\ kv[wk[w].job].kind = "json"
              /\ (NoUsableInput(kv[wk[w].job]) \/ UndecodableInput(kv[wk[w].job])))
            => /\ wk[w].written.status = "COMPLETED"
               /\ wk[w].written.result.present
               /\ wk[w].written.result.error = C3Expected(kv[wk[w].job])
               /\ wk[w].engine_calls = 0
    /\ \A j \in Jobs :
          (kv[j].kind = "json" /\ lastEnd[j] = "returned" /\ Quiet(j)
              /\ (NoUsableInput(kv[j]) \/ UndecodableInput(kv[j])))
            => /\ kv[j].status = "COMPLETED"
               /\ kv[j].result.error = C3Expected(kv[j])

C3_Witness ==
    \E w \in Workers :
        /\ wk[w].pc = "returned" /\ wk[w].found
        /\ UndecodableInput(kv[wk[w].job])
        /\ kv[wk[w].job].status = "COMPLETED"
        /\ kv[wk[w].job].result.error = "invalid_image_encoding"
        /\ wk[w].engine_calls = 0

\* C4: when a step of process_job after the record was loaded raised, the record
\* is written FAILED with the exception's message and a failed_at stamp, and
\* process_job returns instead of raising into the loop.
C4_RaisedStepMarksFailed ==
    \A w \in Workers :
        (wk[w].found /\ wk[w].exc # NoError /\ wk[w].pc \in {"returned", "raised"})
            => /\ wk[w].pc = "returned"
               /\ wk[w].written.status = "FAILED"
               /\ wk[w].written.error = wk[w].exc
               /\ wk[w].written.failed_at

\* C5: a run that loads a record it finds PROCESSING, COMPLETED or FAILED (a
\* re-delivery after a crash or after an earlier run, possibly next to a second
\* worker on the same id) writes a terminal status, and the record is left
\* terminal once no run on the id is under way.
C5_ReprocessingEndsTerminal ==
    /\ \A w \in Workers :
          (wk[w].pc = "returned" /\ wk[w].found
              /\ wk[w].seen \in {"PROCESSING", "COMPLETED", "FAILED"})
            => wk[w].written.status \in Terminal
    /\ \A j \in Jobs :
          (kv[j].kind = "json" /\ deliveries[j] >= 2 /\ lastEnd[j] = "returned" /\ Quiet(j))
            => kv[j].status \in Terminal

C5_Witness ==
    \E w \in Workers :
        /\ wk[w].pc = "returned" /\ wk[w].seen = "PROCESSING" /\ crashed
        /\ deliveries[wk[w].job] >= 2 /\ Quiet(wk[w].job)
        /\ kv[wk[w].job].status \in Terminal

(***************************************************************************)
(* Claims about the iterative OCR engine                                   *)
(***************************************************************************)
\* The run got past validation and decoding and has built its response.
Processed == eng.pc = "done" /\ eng.response.built /\ eng.response.error = ""

NonFailed(iterations) == {k \in 1..Len(iterations) : iterations[k].error = ""}

\* C6: whenever process_image gets past validation and decoding, the
\* response's iterations list has exactly max_iterations entries and its k-th
\* entry carries iteration index k, counted from 1, failed passes included.
C6_HistoryIsComplete ==
    Processed =>
        /\ Len(eng.response.iterations) = eng.max_iterations
        /\ \A k \in 1..Len(eng.response.iterations) :
               eng.response.iterations[k].iteration = k

\* A response whose history has a failed entry after a successful one.
C6_Witness ==
    /\ Processed
    /\ eng.max_iterations >= 2
    /\ Len(eng.response.iterations) = eng.max_iterations
    /\ eng.response.iterations[1].error = ""
    /\ eng.response.iterations[2].error = "failed"

\* C7: the confidence of the response is the greatest confidence among the
\* passes not recorded as failed, and 0 when every pass is recorded as failed.
C7_ConfidenceIsMaximum ==
    Processed =>
        LET its == eng.response.iterations
        IN  IF NonFailed(its) = {}
            THEN eng.response.confidence = 0
            ELSE /\ \E k \in NonFailed(its) : its[k].confidence = eng.response.confidence
                 /\ \A k \in NonFailed(its) : its[k].confidence <= eng.response.confidence

\* A response with a failed pass, then a pass read with a positive confidence.
C7_Witness ==
    /\ Processed
    /\ eng.max_iterations >= 2
    /\ eng.response.iterations[1].error = "failed"
    /\ eng.response.iterations[2].error = ""
    /\ eng.response.iterations[2].confidence > 0
    /\ eng.response.confidence = eng.response.iterations[2].confidence

\* The earliest pass among the non-failed passes of greatest confidence.
EarliestBest(its) ==
    CHOOSE k \in NonFailed(its) :
        /\ \A m \in NonFailed(its) : its[m].confidence <= its[k].confidence
        /\ \A m \in NonFailed(its) :
               its[m].confidence = its[k].confidence => k <= m

\* C8: the text of the response is the text of the non-failed pass of greatest
\* confidence, the earliest of them when several share it.
C8_TextIsEarliestBest ==
    (Processed /\ NonFailed(eng.response.iterations) # {}) =>
        LET its == eng.response.iterations
        IN  /\ eng.response.text.id = its[EarliestBest(its)].preview_text.of
            /\ eng.response.text.len = its[EarliestBest(its)].text_length

\* C9: a pass attempts region OCR exactly when its loop index is 1, the best
\* confidence before it is below confidence_threshold and more than one layout
\* region was detected; no entry of another pass has method region-based.
\* Passes stopped by a fault of their own preprocessing are left out.
C9_RegionOcrExactlyOnTrigger ==
    /\ \A k \in 1..Len(eng.passes) :
           eng.passes[k].fault # "preprocess" =>
               (eng.passes[k].region_attempted <=>
                    /\ eng.passes[k].index = 1
                    /\ eng.passes[k].best_before < ConfidenceThreshold
                    /\ eng.layout_regions > 1)
    /\ \A k \in 1..Len(eng.iteration_history) :
           eng.iteration_history[k].method = "region-based" => k = 2

(***************************************************************************)
(* Claims about the vision provider set                                    *)
(***************************************************************************)
\* The registered providers other than p, in registration order.
Remaining(providers, p) ==
    LET keep == {i \in 1..Len(providers) : providers[i] # p}
        Rank(i) == Cardinality({j \in keep : j <= i})
    IN  [n \in 1..Cardinality(keep) |->
            providers[CHOOSE i \in keep : Rank(i) = n]]

\* C10: with fallback enabled the primary provider is called first; only after
\* it failed are the other registered providers called, each at most once and
\* in registration order, up to the first that succeeds, whose result is
\* returned.
C10_FallbackInRegistrationOrder ==
    (rc.pc = "done" /\ rc.fallback /\ rc.providers # <<>>) =>
        LET rest == Remaining(rc.providers,
                              GetPrimaryProvider(rc.providers, rc.requested))
            n == Len(rc.calls)
        IN  /\ n >= 1
            /\ rc.calls[1].name = GetPrimaryProvider(rc.providers, rc.requested)
            /\ n - 1 <= Len(rest)
            /\ \A i \in 2..n : rc.calls[i].name = rest[i - 1]
            /\ \A i \in 1..(n - 1) : ~rc.calls[i].ok
            /\ IF rc.calls[n].ok
               THEN rc.result = ProviderResult(rc.calls[n].name)
               ELSE n = Len(rest) + 1 /\ rc.result.error # ""

\* Registered openai, gemini, huggingface; gemini preferred; gemini and openai
\* fail and huggingface succeeds.
C10_Witness ==
    /\ rc.pc = "done"
    /\ rc.fallback
    /\ rc.providers = <<"openai", "gemini", "huggingface">>
    /\ rc.requested = "gemini"
    /\ rc.calls = <<[name |-> "gemini", ok |-> FALSE], [name |-> "openai", ok |-> FALSE],
                    [name |-> "huggingface", ok |-> TRUE]>>
    /\ rc.result = ProviderResult("huggingface")

\* Every registered provider was called and every call made raised.
EveryProviderFailed ==
    /\ rc.providers # <<>>
    /\ \A i \in 1..Len(rc.providers) :
           \E k \in 1..Len(rc.calls) : rc.calls[k].name = rc.providers[i]
    /\ \A k \in 1..Len(rc.calls) : ~rc.calls[k].ok

\* C11 as stated: when at least one provider is registered and every
\* registered provider fails, reconstruct_with_ai returns the error
\* "All AI providers failed", whatever the fallback flag.
C11_AllFailIsOneError ==
    (rc.pc = "done" /\ EveryProviderFailed) =>
        rc.result.error = "All AI providers failed"

\* C11 as amended: the same with fallback enabled; with fallback disabled the
\* call returns the primary provider's own error, formatted.
C11_AllFailIsOneErrorWithFallback ==
    (rc.pc = "done" /\ EveryProviderFailed) =>
        /\ rc.result.error # ""
        /\ rc.result.model = ""
        /\ rc.fallback => rc.result.error = "All AI providers failed"
        /\ ~rc.fallback =>
               rc.result.error \in {"provider error", "Network error", "Internal error"}

\* Three providers registered, fallback enabled, all three called and failed.
C11_Witness ==
    /\ rc.pc = "done"
    /\ rc.fallback
    /\ Len(rc.providers) = 3
    /\ Len(rc.calls) = 3
    /\ EveryProviderFailed
    /\ rc.result.error = "All AI providers failed"

(***************************************************************************)
(* Claims about the vision providers' request policy                       *)
(***************************************************************************)
\* C12 as stated: an attempt answered with 429 is not counted against the
\* budget of max_retries attempts, so the attempts counted so far are the
\* attempts that failed otherwise, however many 429 responses came.
C12_RateLimitNotCounted ==
    rq.pc \in {"loop", "sleep"} => rq.attempt = rq.transport_failures

\* C12 as amended: an attempt answered with 429 is counted like an attempt
\* that failed in transport; no more than max_retries requests are ever sent,
\* and once max_retries attempts were used the error is surfaced.
C12_RateLimitCounted ==
    /\ rq.requests <= rq.max_retries
    /\ rq.pc \in {"loop", "sleep"} =>
           rq.attempt = rq.transport_failures + rq.rate_limited
    /\ rq.error = "Exceeded maximum retry attempts" =>
           /\ rq.transport_failures + rq.rate_limited = rq.max_retries
           /\ rq.requests = rq.max_retries
           /\ ~rq.returned

\* Every attempt of a budget of at least three was answered with 429 and the
\* error was surfaced.
C12_Witness ==
    /\ rq.pc = "raised"
    /\ rq.max_retries >= 3
    /\ rq.rate_limited = rq.max_retries
    /\ rq.error = "Exceeded maximum retry attempts"

(***************************************************************************)
(* Claims about the object store                                           *)
(***************************************************************************)
FailedAttempts == {k \in 1..Len(st.attempts) : st.attempts[k] # "ok"}

\* put_object stops at the first success and returns true exactly then; when
\* every attempt of the budget failed it returns false.
PutStopsAndReports(budget) ==
    /\ \A k \in 1..(Len(st.attempts) - 1) : st.attempts[k] # "ok"
    /\ st.put_result = "True" <=>
           (st.attempts # <<>> /\ st.attempts[Len(st.attempts)] = "ok")
    /\ (st.pc = "done" /\ Cardinality(FailedAttempts) = budget) =>
           st.put_result = "False"

C13Budget == IF st.aws_max_retries >= 1 THEN st.aws_max_retries ELSE 3

LastProcessed == lh.i > 0 /\ ~lh.last.skipped

\* k is the output prefix without its trailing slashes, "/", the part of the
\* unescaped key after its last "/", and ".json".
IsExpectedOutKey(k, output_prefix, raw_key) ==
    LET u == UnquotePlus(raw_key)
    IN  \E n \in 0..Len(output_prefix), m \in 1..(Len(u) + 1) :
            /\ \A i \in (n + 1)..Len(output_prefix) : output_prefix[i] = "/"
            /\ n = 0 \/ output_prefix[n] # "/"
            /\ \A i \in m..Len(u) : u[i] # "/"
            /\ m = 1 \/ u[m - 1] = "/"
            /\ k = SubSeq(output_prefix, 1, n) \o <<"/">> \o SubSeq(u, m, Len(u))
                       \o <<".json">>

\* C14: for every record with bucket and key present, the key the handler
\* writes under, for the result document and for the error document alike, is
\* output_prefix without trailing slashes + "/" + basename(unescaped key) +
\* ".json".
C14_OutKeyIsPrefixBasenameJson ==
    LastProcessed =>
        /\ lh.last.writes # <<>>
        /\ \A w \in 1..Len(lh.last.writes) :
               IsExpectedOutKey(lh.last.writes[w].key, lh.output_prefix, lh.last.raw_key)

\* An error document written for a key whose escaped "/" decides the base name,
\* under a prefix with two trailing slashes.
C14_Witness ==
    /\ LastProcessed
    /\ lh.output_prefix = <<"o", "/", "/">>
    /\ lh.last.raw_key = <<"d", "%2F", "a", ".jpg">>
    /\ lh.last.raised # ""
    /\ lh.last.writes[1].doc.kind = "error"
    /\ lh.last.writes[1].key = <<"o", "/", "a", ".jpg", ".json">>

RaisedCount == Cardinality({k \in 1..Len(lh.raised) : lh.raised[k]})

\* C15: the handler returns {status: ok} exactly when no record's processing
\* raised, otherwise {status: partial_failure, failed: n} with n the number of
\* records whose processing raised; every record of the batch is processed.
C15_BatchStatusCountsFailures ==
    lh.pc = "done" =>
        /\ Len(lh.raised) = lh.records
        /\ lh.response.status = "ok" <=> RaisedCount = 0
        /\ RaisedCount > 0 =>
               /\ lh.response.status = "partial_failure"
               /\ lh.response.failed = RaisedCount

\* A batch whose first record raised and whose second was processed and did not.
C15_Witness ==
    /\ lh.pc = "done"
    /\ lh.records >= 2
    /\ lh.raised[1]
    /\ ~lh.raised[2]
    /\ ~lh.last.skipped
    /\ lh.response.status = "partial_failure"

\* Textract failed for the record processed last.
LastAnalysisFailed ==
    /\ LastProcessed
    /\ \/ lh.last.outcome \in {"ClientError", "OtherError"}
       \/ lh.last.outcome = "NoJobId" /\ IsPdf(UnquotePlus(lh.last.raw_key))

\* C16: when sync analysis or async start fails for a record, exactly one
\* error document is written to the record's out_key and the failure is
\* re-raised; for a ClientError of the cloud service the document has error
\* aws_service_failure and the provider's request id, otherwise error
\* internal_pipeline_failure and the invocation's request id.
C16_ErrorDocumentNamesFailure ==
    LastAnalysisFailed =>
        /\ lh.last.raised # ""
        /\ Len(lh.last.writes) = 1
        /\ lh.last.writes[1].doc.kind = "error"
        /\ lh.last.writes[1].key = OutKey(lh.output_prefix, lh.last.raw_key)
        /\ lh.last.writes[1].doc.input = UnquotePlus(lh.last.raw_key)
        /\ IF lh.last.outcome = "ClientError"
           THEN /\ lh.last.writes[1].doc.error = "aws_service_failure"
                /\ lh.last.writes[1].doc.requestId = "AWS-RID"
           ELSE /\ lh.last.writes[1].doc.error = "internal_pipeline_failure"
                /\ lh.last.writes[1].doc.requestId = lh.request_id

(***************************************************************************)
(* Claims about input validation                                           *)
(***************************************************************************)
\* C17: validate returns the oversized-input error exactly when the input is
\* longer than max_mb * 2^20 bytes (an input of exactly that length is
\* accepted), the empty-input error exactly when it has no bytes, and no
\* error otherwise.
C17_ValidateSizeGate ==
    eng.pc # "idle" =>
        /\ eng.validation = "Image size exceeds limit" <=>
               eng.input.len > eng.max_image_size_mb * (2 ^ 20)
        /\ eng.validation = "Empty image content" <=> eng.input.len = 0
        /\ (eng.input.len # 0 /\ eng.input.len <= eng.max_image_size_mb * (2 ^ 20)) =>
               eng.validation = ""

\* An input of exactly the limit of the default configuration was accepted.
C17_Witness ==
    /\ eng.pc # "idle"
    /\ eng.max_image_size_mb = MaxImageSizeMb
    /\ eng.input.len = eng.max_image_size_mb * (2 ^ 20)
    /\ eng.validation = ""

(***************************************************************************)
(* Claims about the processor                                              *)
(***************************************************************************)
\* The bytes given to process_bytes are empty or above the size limit.
InvalidContents ==
    pr.input.len = 0 \/ pr.input.len > MaxImageSizeMb * (2 ^ 20)

\* C18: when input validation fails, process_image and process_image_advanced
\* return the error at once (no decoding, reconstruction, layout analysis, OCR
\* pass, pattern store or vision provider call) and the processor surfaces it
\* as a 400 without any upload.
C18_InvalidInputIsA400 ==
    (pr.pc = "done" /\ InvalidContents) =>
        /\ pr.result.returned
        /\ pr.result.error \in {"Empty image content", "Image size exceeds limit"}
        /\ pr.did = {"validate"}
        /\ pr.uploads = <<>>
        /\ pr.response.http = 400

\* C19: when the engine processes the image without an error result, on the
\* standard path and on the advanced path, process_bytes returns the engine's
\* result enriched with filename, processing_time, s3_key and request_id, the
\* request id being the one the caller passed in.
C19_ResultIsEnriched ==
    (pr.pc = "done" /\ pr.result.returned /\ pr.result.error = "") =>
        /\ pr.response.http = 200
        /\ pr.response.enriched
        /\ pr.response.result = pr.result
        /\ pr.response.request_id = pr.request_id

\* C20: if the upload of the raw bytes fails, or the bucket is unconfigured,
\* the request still succeeds and the response's s3_key is null.
C20_FailedUploadGivesNullKey ==
    (pr.pc = "done" /\ pr.uploads # <<>> /\ pr.uploads[1].value = NoneValue) =>
        /\ pr.response.http = 200
        /\ pr.response.s3_key = NoneValue

(***************************************************************************)
(* Claims about the cloud OCR service                                      *)
(***************************************************************************)
\* analyze_document returns the first successful payload without further
\* calls, and raises RuntimeError "Max retry threshold reached" once budget
\* consecutive service errors were seen.
AnalyzeStopsAndReports(budget) ==
    tx.operation = "analyze_document" =>
        /\ \A k \in 1..(Len(tx.attempts) - 1) : tx.attempts[k] \notin {"ok", "NoJobId"}
        /\ (tx.attempts # <<>> /\ tx.attempts[Len(tx.attempts)] \in {"ok", "NoJobId"}) =>
               (tx.pc = "done" /\ tx.returned /\ tx.value = "payload" /\ tx.raised = "")
        /\ (Len(tx.attempts) = budget
              /\ \A k \in 1..Len(tx.attempts) : tx.attempts[k] = "ClientError") =>
               /\ tx.pc = "done"
               /\ ~tx.returned
               /\ tx.raised = "RuntimeError: Max retry threshold reached"

C21Budget == IF tx.aws_max_retries >= 1 THEN tx.aws_max_retries ELSE 1

C22_OneClientClosedOnce ==
    /\ Cardinality(ps.used) <= 1
    /\ ps.pc = "closed" => \A c \in ps.used : ps.aclose[c] = 1

(***************************************************************************)
(* Claims about the pattern store's local file                             *)
(***************************************************************************)
\* No record or get_best call is in progress.
Quiescent == \A t \in Tasks : ls.task[t] = IdleTask

\* Everything ever put in the file, oldest first: what it held at
\* construction, then the recorded patterns in the order of their writes.
AllWritten == StoredPatterns(ls.stored) \o ls.written

\* C23: reads and writes of the local file are serialized, so that with
\* concurrent record and get_best calls no recorded pattern is lost and the
\* file is never read half-written.
C23_FileAccessSerialized ==
    /\ ~ls.half_read
    /\ Quiescent =>
         LET kept == KeepRecent(AllWritten)
             held == {ls.file.content[j] : j \in 1..Len(ls.file.content)}
         IN  \A k \in 1..Len(kept) : kept[k] \in held

\* C24: the local file holds at most 500 entries, and when more than 500
\* were recorded exactly the 500 most recently written ones, newest last.
C24_FileKeepsMostRecent ==
    /\ Len(ls.file.content) <= MaxPatterns
    /\ (Quiescent /\ Len(AllWritten) > MaxPatterns) =>
         ls.file.content = KeepRecent(AllWritten)

(***************************************************************************)
(* Claims about the advanced pass: fallback and learning                   *)
(***************************************************************************)
\* C25: when the vision provider set returns an error result,
\* process_image_advanced runs process_image on the same bytes with
\* use_reconstruction = true and returns its response, and schedules no
\* learning write.
C25_ProviderErrorFallsBack ==
    (pr.ai_result = "error" /\ pr.pc \in {"check", "done"}) =>
        /\ pr.fallback = [called |-> TRUE, input |-> pr.input, use_reconstruction |-> TRUE]
        /\ \E recon_meta \in BOOLEAN :
              pr.result = ProcessImageCall(pr.input, TRUE, recon_meta).result
        /\ pr.learning = NoLearning

\* The provider set failed and the fallback's reconstruction-backed result
\* was returned.
C25_Witness ==
    /\ pr.ai_result = "error"
    /\ pr.pc = "done"
    /\ pr.fallback.called
    /\ pr.result.reconstruction_meta
    /\ pr.response.http = 200

\* C26: on a successful advanced pass the learning write is scheduled and not
\* awaited: the engine returns its response without waiting for it, and a
\* failed local write or cloud upsert neither changes the response nor raises
\* into the engine or its caller.
C26_LearningNeverReachesResponse ==
    pr.learning.state # "none" =>
        /\ pr.ai_result = "ok"
        /\ pr.pc \in {"check", "done"}
        /\ pr.result = AdvancedResult
        /\ pr.pc = "done" =>
              /\ pr.response.http = 200
              /\ pr.response.result = AdvancedResult

\* Both the cloud upsert and the local write failed, and the request was
\* answered with the advanced result.
C26_Witness ==
    /\ pr.pc = "done"
    /\ pr.learning.state = "finished"
    /\ pr.learning.cloud = "failed"
    /\ pr.learning.local = "failed"
    /\ pr.response.http = 200
    /\ pr.response.result = AdvancedResult

(***************************************************************************)
(* Claims about the routing and the skipping of storage records            *)
(***************************************************************************)
\* The unescaped key of the record processed last.
LastKey == UnquotePlus(lh.last.raw_key)

\* The key ends in ".pdf", in either case.
EndsInPdf(key) == key # <<>> /\ key[Len(key)] \in {".pdf", ".PDF"}

\* C27: a record whose unescaped key ends case-insensitively in ".pdf" is
\* handled only by starting async OCR, and what it persists is {jobId,
\* status STARTED, requestId, input}; every other key is handled only by
\* synchronous analysis, whose response is persisted with requestId attached.
C27_PdfAsyncOthersSync ==
    LastProcessed =>
        IF EndsInPdf(LastKey)
        THEN /\ lh.last.calls = {"start_detection"}
             /\ lh.last.raised = "" =>
                   lh.last.writes =
                       <<[key |-> OutKey(lh.output_prefix, lh.last.raw_key),
                          doc |-> [kind |-> "STARTED", error |-> "", jobId |-> "job-1",
                                   requestId |-> lh.request_id, input |-> LastKey,
                                   input_bucket |-> lh.last.bucket]]>>
        ELSE /\ lh.last.calls = {"analyze_document"}
             /\ lh.last.raised = "" =>
                   lh.last.writes =
                       <<[key |-> OutKey(lh.output_prefix, lh.last.raw_key),
                          doc |-> [kind |-> "analysis", error |-> "", jobId |-> "",
                                   requestId |-> lh.request_id, input |-> <<>>,
                                   input_bucket |-> ""]]>>

\* An upper-case PDF key was started as an async job and the job reference
\* persisted.
C27_Witness ==
    /\ LastProcessed
    /\ LastKey # <<>>
    /\ LastKey[Len(LastKey)] = ".PDF"
    /\ lh.last.raised = ""
    /\ lh.last.calls = {"start_detection"}
    /\ lh.last.writes[1].doc.kind = "STARTED"

\* C28: a record with a missing bucket or a missing (empty) key is skipped:
\* no OCR call, nothing written, no exception, and not counted as failed.
C28_MissingReferenceSkipped ==
    (lh.i > 0 /\ (lh.last.bucket = "" \/ LastKey = <<>>)) =>
        /\ lh.last.skipped
        /\ lh.last.calls = {}
        /\ lh.last.writes = <<>>
        /\ lh.last.raised = ""
        /\ ~lh.raised[lh.i]
        /\ lh.failures = RaisedCount

\* A record with a bucket and an empty key came after a failed record: the
\* counter stayed at one.
C28_Witness ==
    /\ lh.i = 2
    /\ lh.last.bucket # ""
    /\ LastKey = <<>>
    /\ lh.last.skipped
    /\ lh.raised[1]
    /\ lh.failures = 1

(***************************************************************************)
(* Claims about the confidence score and markers                           *)
(***************************************************************************)
\* C29: the confidence score is monotone in markers: for every string s and
\* every marker m, score(s + " " + m) >= score(s).
C29_ScoreMonotoneInMarkers == sc.appends > 0 => sc.after >= sc.before

(***************************************************************************)
(* Claims about the job status machine                                     *)
(***************************************************************************)
\* The status changes a job record may go through.
AllowedTransitions ==
    {<<"QUEUED", "PROCESSING">>, <<"PROCESSING", "COMPLETED">>,
     <<"PROCESSING", "FAILED">>}

\* C30: every change of a job record's status is QUEUED -> PROCESSING,
\* PROCESSING -> COMPLETED or PROCESSING -> FAILED: no terminal status without
\* PROCESSING first, and COMPLETED or FAILED never changes again.
C30_StatusTransitions ==
    [][\A j \in Jobs :
          kv'[j].status # kv[j].status =>
              <<kv[j].status, kv'[j].status>> \in AllowedTransitions]_vars

(***************************************************************************)
(* Claims about submitted jobs                                             *)
(***************************************************************************)
\* C31: the submitter stores the record under job:<id> before it pushes the
\* id, so a worker that pops the id of a submitted job finds the record: no
\* popped id is skipped as missing.
C31_PoppedIdHasRecord ==
    \A j \in Jobs :
        /\ lastEnd[j] # "skipped"
        /\ (\E k \in 1..Len(queue) : queue[k] = j) => kv[j].kind # "absent"
        /\ \A w \in Workers :
              (wk[w].job = j /\ wk[w].pc \in InRun \ {"get"}) => wk[w].found

\* A worker popped the id of a submitted job and loaded its record.
C31_Witness ==
    \E w \in Workers :
        /\ wk[w].pc = "mark"
        /\ wk[w].found
        /\ sb[wk[w].job].pc = "returned"
        /\ wk[w].raw = Submitted(sb[wk[w].job].url)

\* C39: a job created by the submit endpoint stores its image reference in a
\* form the worker resolves to image bytes: the worker invokes the engine on
\* the referenced image and does not end the job with error missing_input.
C39_SubmittedJobReachesEngine ==
    \A w \in Workers :
        (wk[w].pc = "complete" /\ sb[wk[w].job].url # "") =>
            /\ wk[w].engine_calls > 0
            /\ wk[w].result # ErrorResult("missing_input")

(***************************************************************************)
(* Claims about the fields of a stored job record                          *)
(***************************************************************************)
\* C32: in every stored job record the result and completed_at are present
\* only when status is COMPLETED, and the error and failed_at only when
\* status is FAILED, also after the id was processed more than once.
C32_FieldsMatchStatus ==
    \A j \in Jobs :
        kv[j].kind = "json" =>
            /\ (kv[j].result.present \/ kv[j].completed_at) => kv[j].status = "COMPLETED"
            /\ (kv[j].error # NoError \/ kv[j].failed_at) => kv[j].status = "FAILED"

(***************************************************************************)
(* Claims about failed passes and the image handed from pass to pass       *)
(***************************************************************************)
\* The best confidence once pass k is over.
BestAfter(k) ==
    IF k < Len(eng.passes) THEN eng.passes[k + 1].best_before ELSE eng.best.confidence

\* C33: a pass that raises is recorded as {iteration: n, error: failed},
\* leaves the best text and confidence unchanged and does not abort the
\* document: every later pass up to max_iterations still runs, and succeeds
\* when nothing raises in it from outside.
C33_FailedPassDoesNotAbort ==
    \A k \in 1..Len(eng.iteration_history) :
        eng.iteration_history[k].error = "failed" =>
            /\ eng.iteration_history[k].iteration = k
            /\ BestAfter(k) = eng.passes[k].best_before
            /\ eng.pc = "done" => Len(eng.iteration_history) = eng.max_iterations
            /\ (k < Len(eng.iteration_history) /\ eng.passes[k + 1].fault = "none") =>
                   eng.iteration_history[k + 1].error = ""

\* C34: after every successful pass N the working image handed to pass N+1
\* is a decoded image, the one enhance_iteration made of pass N's image, and
\* never an unevaluated value.
C34_NextImageIsEnhanced ==
    \A k \in 1..(Len(eng.passes) - 1) :
        eng.iteration_history[k].error = "" => eng.passes[k + 1].img = "image"

(***************************************************************************)
(* Claims about transient errors of a vision-provider request              *)
(***************************************************************************)
\* C35: a request that fails with a transient error (HTTP 5xx or throttling)
\* is retried with backoff until the attempt budget is used up; its error is
\* raised to the provider set only then, not on the first such response.
C35_TransientRetriedUntilExhausted ==
    rq.pc = "raised" => rq.requests >= rq.max_retries

(***************************************************************************)
(* Claims about non-transient errors of an object-store put                *)
(***************************************************************************)
\* C36: a put retries only transient errors; after an attempt that failed
\* with a non-transient error (an access-denied service error or an exception
\* that is no service error) no further attempt is made.
C36_NonTransientNotRetried ==
    \A k \in 1..(Len(st.attempts) - 1) :
        st.attempts[k] \notin {"AccessDenied", "OtherError"}

(***************************************************************************)
(* Claims about layout analysis and the pattern fetch of the advanced pass *)
(***************************************************************************)
\* C37: in the advanced pass layout analysis and the fetch of the best
\* learned pattern run concurrently: the fetch is started before layout
\* analysis has completed (so it is never still to be started once the layout
\* is known), and both have completed before the provider set is called.
C37_LayoutAndPatternConcurrent ==
    /\ "layout" \in pr.did => pr.pc # "pattern"
    /\ pr.ai_result # "none" => {"layout", "pattern_store"} \subseteq pr.did

(***************************************************************************)
(* Claims about the retrieval of the best learned pattern                  *)
(***************************************************************************)
\* The rows of the cloud table and the positions of the local file that have
\* the document type asked for.
CloudMatches == {r \in kn.table : r.doc_type = kn.doc_type}

LocalMatches == {k \in 1..Len(kn.file.entries) : kn.file.entries[k].doc_type = kn.doc_type}

\* The accuracy of a local entry; an entry without a score counts as 0.
LocalAccuracy(k) == IF kn.file.entries[k].scored THEN kn.file.entries[k].accuracy_score ELSE 0

\* C38: get_pattern_knowledge returns the cloud's highest-accuracy row for
\* doc_type when a cloud client is configured and the query returns one; on
\* a cloud error or an absent row, and without a client, it returns the local
\* entry of highest accuracy_score among those of that doc_type, or nothing
\* when there is none; a cloud failure is followed by the local scan and
\* never ends the call.
C38_CloudFirstThenLocalBest ==
    /\ kn.cloud = "row" =>
          /\ kn.client /\ kn.pc = "returned"
          /\ kn.returned \in CloudMatches
          /\ \A q \in CloudMatches : kn.returned.accuracy_score >= q.accuracy_score
    /\ kn.cloud = "empty" => CloudMatches = {}
    /\ kn.cloud \in {"error", "empty"} => kn.pc \in {"local", "returned"}
    /\ (kn.pc = "returned" /\ kn.cloud # "row") =>
          IF LocalMatches = {}
          THEN kn.returned = NoPattern
          ELSE \E k \in LocalMatches :
                  /\ kn.returned = kn.file.entries[k]
                  /\ \A j \in LocalMatches : LocalAccuracy(k) >= LocalAccuracy(j)

\* The cloud query failed and the better of two local entries of the document
\* type, the second of the file, was returned.
C38_Witness ==
    /\ kn.pc = "returned"
    /\ kn.cloud = "error"
    /\ Cardinality(LocalMatches) = 2
    /\ kn.returned = kn.file.entries[2]
    /\ LocalAccuracy(2) > LocalAccuracy(1)

(***************************************************************************)
(* Claims about what an "ok" of the event handler stands for               *)
(***************************************************************************)
\* C40: when the handler returns status "ok" for a batch, a document was
\* written at the out_key of every record of the batch that had both a bucket
\* and a key; a record whose result could not be persisted is not reported
\* as succeeded.
C40_OkMeansEveryResultPersisted ==
    (lh.pc = "done" /\ lh.response.status = "ok") =>
        \A k \in 1..Len(lh.persisted) : lh.persisted[k] # "lost"

====
